---- MODULE Spec2Model ----
(***************************************************************************)
(* Model of the wineo-back REST backend: the user store and JWT auth,      *)
(* the category tree with its materialized path, the filter-inheritance    *)
(* resolver, regions, cities and listings, each HTTP handler translated    *)
(* from its source.                                                        *)
(*                                                                         *)
(* Strings are sequences of one-character strings, so that trim(),         *)
(* toLowerCase() and the slug regular expressions are computed, not        *)
(* assumed.  Document ids are naturals handed out by a per-collection      *)
(* counter (an ObjectId is never reused); 0 stands for null.               *)
(***************************************************************************)
EXTENDS Naturals, Integers, Sequences, FiniteSets, TLC

VARIABLES users, categories, filters, regions, cities, listings,
          nextId, issued, now, res, pending, started,
          objects, job, presigned

\* the object store, the image processing call in progress and the upload
\* slots handed out
imageVars == <<objects, job, presigned>>

vars == <<users, categories, filters, regions, cities, listings,
          nextId, issued, now, res, pending, started, objects, job, presigned>>

(***************************************************************************)
(* Bounds of the model.                                                    *)
(***************************************************************************)
MaxUsers == 1
MaxCategories == 3
MaxFilters == 2
MaxRegions == 1
MaxCities == 1
MaxListings == 1
\* the clock runs for this many token lifetimes
MaxPeriods == 1
\* requests handled at once, and requests started in all
MaxThreads == 2
MaxRequests == 3
\* the longest materialized path kept (a cycle of parents grows paths without end)
MaxPathLen == 2

(***************************************************************************)
(* JavaScript string operations on character sequences.                    *)
(***************************************************************************)
Lower == {"a", "b", "c", "d", "e", "f", "g", "h", "i", "j", "k", "l", "m",
          "n", "o", "p", "q", "r", "s", "t", "u", "v", "w", "x", "y", "z"}
Digit == {"0", "1", "2", "3", "4", "5", "6", "7", "8", "9"}

IsSpace(c) == c = " "
IsSlugAlnum(c) == c \in Lower \cup Digit

\* String.prototype.toLowerCase on the letters the model uses
LowerChar(c) == IF c = "A" THEN "a" ELSE IF c = "B" THEN "b" ELSE c
toLowerCase(s) == [i \in 1..Len(s) |-> LowerChar(s[i])]

RECURSIVE TrimLeft(_)
TrimLeft(s) == IF s # <<>> /\ IsSpace(Head(s)) THEN TrimLeft(Tail(s)) ELSE s

RECURSIVE TrimRight(_)
TrimRight(s) ==
    IF s # <<>> /\ IsSpace(s[Len(s)]) THEN TrimRight(SubSeq(s, 1, Len(s) - 1)) ELSE s

\* String.prototype.trim
trim(s) == TrimRight(TrimLeft(s))

\* .replace(/\s+/g, '-'): every maximal run of whitespace becomes one hyphen
RECURSIVE ReplaceSpaces(_)
ReplaceSpaces(s) ==
    IF s = <<>> THEN <<>>
    ELSE IF IsSpace(Head(s))
         THEN <<"-">> \o ReplaceSpaces(TrimLeft(s))
         ELSE <<Head(s)>> \o ReplaceSpaces(Tail(s))

\* .replace(/[^a-z0-9-]/g, '')
StripNonSlug(s) == SelectSeq(s, LAMBDA c : IsSlugAlnum(c) \/ c = "-")

\* .replace(/-+/g, '-')
RECURSIVE CollapseHyphens(_)
CollapseHyphens(s) ==
    IF Len(s) < 2 THEN s
    ELSE IF s[1] = "-" /\ s[2] = "-" THEN CollapseHyphens(Tail(s))
         ELSE <<Head(s)>> \o CollapseHyphens(Tail(s))

\* .replace(/^-|-$/g, ''): at most one leading and one trailing hyphen go
StripEdgeHyphens(s) ==
    LET a == IF s # <<>> /\ Head(s) = "-" THEN Tail(s) ELSE s
    IN  IF a # <<>> /\ a[Len(a)] = "-" THEN SubSeq(a, 1, Len(a) - 1) ELSE a

\* /^[a-z0-9]+(?:-[a-z0-9]+)*$/.test(s)
SlugRegexTest(s) ==
    /\ s # <<>>
    /\ \A i \in 1..Len(s) : IsSlugAlnum(s[i]) \/ s[i] = "-"
    /\ s[1] # "-"
    /\ s[Len(s)] # "-"
    /\ \A i \in 1..(Len(s) - 1) : ~(s[i] = "-" /\ s[i + 1] = "-")

\* x.trim().toLowerCase().replace(/\s+/g, '-').replace(/[^a-z0-9-]/g, '')
Slugify(s) == StripNonSlug(ReplaceSpaces(toLowerCase(trim(s))))

\* a request body names the keys it defines; the others are undefined
Has(body, key) == key \in body.fields

\* the reply of a handler that changed nothing
Reply(status, error) == [status |-> status, error |-> error]

\* a handler up to its write: it has replied (Stop), or it goes on to save doc
Stop(status, error) == [status |-> status, error |-> error, doc |-> [id |-> 0]]
Proceed(doc) == [status |-> 0, error |-> "", doc |-> doc]

\* res.status(201) after a create that saved
Created(saved) == IF saved.status = 200 THEN [saved EXCEPT !.status = 201] ELSE saved

(***************************************************************************)
(* Users, tokens and requireAuth.                                          *)
(***************************************************************************)
\* jwt.sign(..., { expiresIn: '7d' }): seconds
TokenTtl == 604800

\* jwt.sign({ userId }, secret, { expiresIn: '7d' }) at clock time t
jwtSign(userId, t) == [userId |-> userId, iat |-> t, exp |-> t + TokenTtl, sig |-> TRUE]

\* jwt.verify that still accepts a token at its expiry instant
jwtVerifyLate(token) == token.sig /\ now <= token.exp

\* jwt.verify: the signature, then the expiry (expired once now >= exp)
jwtVerify(token) == token.sig /\ now < token.exp

NoToken == [userId |-> 0, iat |-> 0, exp |-> 0, sig |-> FALSE]
NoHeader == [scheme |-> "none", empty |-> TRUE, token |-> NoToken]
Bearer(t) == [scheme |-> "Bearer", empty |-> FALSE, token |-> t]

\* store/users.js findById
findById(id) == IF id \in DOMAIN users THEN users[id] ELSE [id |-> 0]

\* middleware requireAuth: the reply when it refuses, or the user it attaches
requireAuth(authHeader) ==
    IF authHeader.scheme # "Bearer" \/ authHeader.empty
    THEN [ok |-> FALSE, status |-> 401,
          error |-> "Missing or invalid authorization header", user |-> 0]
    ELSE IF ~jwtVerify(authHeader.token)
    THEN [ok |-> FALSE, status |-> 401, error |-> "Invalid or expired token", user |-> 0]
    ELSE IF findById(authHeader.token.userId).id = 0
    THEN [ok |-> FALSE, status |-> 401, error |-> "User not found", user |-> 0]
    ELSE [ok |-> TRUE, status |-> 200, error |-> "", user |-> authHeader.token.userId]

\* bcrypt.hash / bcrypt.compare: the hash is a tagged copy no password equals
bcryptHash(password) == <<"$">> \o password
bcryptCompare(password, hash) == hash = bcryptHash(password)

\* findByEmail without the lower-casing
findByEmailExact(email) ==
    LET e == trim(email)
        hit == {id \in DOMAIN users : users[id].email = e}
    IN  IF hit = {} THEN [id |-> 0] ELSE users[CHOOSE id \in hit : TRUE]

\* store/users.js findByEmail: User.findOne({ email: email.toLowerCase().trim() })
findByEmail(email) ==
    LET e == trim(toLowerCase(email))
        hit == {id \in DOMAIN users : users[id].email = e}
    IN  IF hit = {} THEN [id |-> 0] ELSE users[CHOOSE id \in hit : TRUE]

\* the unique index on User.email
UserIndexAllows(coll, doc) == \A id \in DOMAIN coll : coll[id].email # doc.email

\* store/users.js create: the document User.create is given
create(data) ==
    [id |-> nextId.user,
     email |-> trim(toLowerCase(data.email)),
     password |-> data.password,
     firstName |-> trim(data.firstName),
     lastName |-> trim(data.lastName),
     businessName |-> trim(data.businessName),
     role |-> IF Has(data, "role") /\ data.role = "admin" THEN "admin" ELSE "customer",
     phone |-> IF Has(data, "phone") THEN trim(data.phone) ELSE <<>>,
     userType |-> IF data.userType = "business" THEN "business" ELSE "physical"]

\* an update that also sets the email, password and role the body names
updateByIdWholeBody(id, data) ==
    IF id \notin DOMAIN users THEN users
    ELSE [users EXCEPT ![id] =
            [@ EXCEPT
               !.firstName = IF Has(data, "firstName") THEN trim(data.firstName) ELSE @,
               !.email = IF Has(data, "email") THEN data.email ELSE @,
               !.password = IF Has(data, "password") THEN data.password ELSE @,
               !.role = IF Has(data, "role") THEN data.role ELSE @]]

\* store/users.js updateById: the $set document
updateById(id, data) ==
    IF id \notin DOMAIN users THEN users
    ELSE [users EXCEPT ![id] =
            [@ EXCEPT
               !.firstName = IF Has(data, "firstName") THEN trim(data.firstName) ELSE @,
               !.lastName = IF Has(data, "lastName") THEN trim(data.lastName) ELSE @,
               !.phone = IF Has(data, "phone") THEN trim(data.phone) ELSE @,
               !.businessName = IF Has(data, "businessName") THEN trim(data.businessName) ELSE @,
               !.userType = IF Has(data, "userType") /\ data.userType \in {"business", "physical"}
                            THEN data.userType ELSE @]]

\* User.create under the unique index on email; the reply is the one the
\* register handler gives
UserSave(user) ==
    IF ~UserIndexAllows(users, user)
    THEN Reply(500, "Registration failed") @@ [users |-> users, token |-> NoToken]
    ELSE Reply(201, "") @@ [users |-> users @@ (user.id :> user),
                            token |-> jwtSign(user.id, now)]

\* POST /auth/register up to the call of create
AuthRegisterPrepare(body) ==
    LET isBusiness == Has(body, "userType") /\ body.userType = "business" IN
    IF ~Has(body, "email") \/ trim(body.email) = <<>>
       \/ ~Has(body, "password") \/ body.password = <<>>
    THEN Stop(400, "Email and password are required")
    ELSE IF Len(body.password) < 6
    THEN Stop(400, "Password must be at least 6 characters")
    ELSE IF isBusiness /\ (~Has(body, "businessName") \/ trim(body.businessName) = <<>>)
    THEN Stop(400, "Business name is required")
    ELSE IF ~isBusiness /\ (~Has(body, "firstName") \/ trim(body.firstName) = <<>>
                            \/ ~Has(body, "lastName") \/ trim(body.lastName) = <<>>)
    THEN Stop(400, "First name and last name are required")
    ELSE IF findByEmail(body.email).id # 0
    THEN Stop(409, "Email already registered")
    ELSE Proceed(create([fields |-> {"email", "password", "firstName", "lastName",
                                     "businessName", "userType"},
                         email |-> toLowerCase(trim(body.email)),
                         password |-> bcryptHash(body.password),
                         firstName |-> IF isBusiness THEN <<>> ELSE trim(body.firstName),
                         lastName |-> IF isBusiness THEN <<>> ELSE trim(body.lastName),
                         businessName |-> IF isBusiness THEN trim(body.businessName) ELSE <<>>,
                         userType |-> IF isBusiness THEN "business" ELSE "physical"]))

\* POST /auth/register
AuthRegister(body) ==
    LET p == AuthRegisterPrepare(body) IN
    IF p.status # 0 THEN Reply(p.status, p.error) @@ [users |-> users, token |-> NoToken]
    ELSE UserSave(p.doc)

\* a login that tells an unknown email from a wrong password
AuthLoginLeaky(body) ==
    IF ~Has(body, "email") \/ trim(body.email) = <<>>
       \/ ~Has(body, "password") \/ body.password = <<>>
    THEN Reply(400, "Email and password are required") @@ [token |-> NoToken]
    ELSE LET user == findByEmail(body.email) IN
         IF user.id = 0
         THEN Reply(404, "User not found") @@ [token |-> NoToken]
         ELSE IF ~bcryptCompare(body.password, user.password)
         THEN Reply(401, "Invalid email or password") @@ [token |-> NoToken]
         ELSE Reply(200, "") @@ [token |-> jwtSign(user.id, now)]

\* POST /auth/login
AuthLogin(body) ==
    IF ~Has(body, "email") \/ trim(body.email) = <<>>
       \/ ~Has(body, "password") \/ body.password = <<>>
    THEN Reply(400, "Email and password are required") @@ [token |-> NoToken]
    ELSE LET user == findByEmail(body.email) IN
         IF user.id = 0
         THEN Reply(401, "Invalid email or password") @@ [token |-> NoToken]
         ELSE IF ~bcryptCompare(body.password, user.password)
         THEN Reply(401, "Invalid email or password") @@ [token |-> NoToken]
         ELSE Reply(200, "") @@ [token |-> jwtSign(user.id, now)]

\* PATCH /auth/me
AuthPatchMe(authHeader, body) ==
    LET auth == requireAuth(authHeader) IN
    IF ~auth.ok THEN Reply(auth.status, auth.error) @@ [users |-> users]
    ELSE IF auth.user \notin DOMAIN users
    THEN Reply(404, "User not found") @@ [users |-> users]
    ELSE Reply(200, "") @@ [users |-> updateById(auth.user, body)]

(***************************************************************************)
(* The category tree.                                                      *)
(***************************************************************************)
\* Category.findById
CategoryFindById(id) == IF id \in DOMAIN categories THEN categories[id] ELSE [id |-> 0]

\* Category.findOne({ _id: { $ne: id }, parentId, slug }) finds a document
CategoryFindOne(exceptId, parentId, slug) ==
    \E c \in DOMAIN categories :
        c # exceptId /\ categories[c].parentId = parentId /\ categories[c].slug = slug

\* a category collection without its unique index
CategoryIndexMissing(coll, doc) == TRUE

\* categorySchema.index({ parentId: 1, slug: 1 }, { unique: true })
CategoryIndexAllows(coll, doc) ==
    \A c \in DOMAIN coll :
        c # doc.id => ~(coll[c].parentId = doc.parentId /\ coll[c].slug = doc.slug)

\* a hook that leaves a category without a parent as it is
CategoryPreSaveRootSkipped(coll, doc) ==
    IF doc.parentId = 0
    THEN [ok |-> TRUE, doc |-> doc]
    ELSE IF doc.parentId \notin DOMAIN coll
    THEN [ok |-> FALSE, doc |-> doc]
    ELSE [ok |-> TRUE,
          doc |-> [doc EXCEPT !.path = Append(coll[doc.parentId].path, doc.parentId),
                              !.level = coll[doc.parentId].level + 1]]

\* categorySchema.pre('save'): level and path from the parent as stored in coll
CategoryPreSave(coll, doc) ==
    IF doc.parentId = 0
    THEN [ok |-> TRUE, doc |-> [doc EXCEPT !.level = 0, !.path = <<>>]]
    ELSE IF doc.parentId \notin DOMAIN coll
    THEN [ok |-> FALSE, doc |-> doc]
    ELSE [ok |-> TRUE,
          doc |-> [doc EXCEPT !.path = Append(coll[doc.parentId].path, doc.parentId),
                              !.level = coll[doc.parentId].level + 1]]

\* document.save() / Model.create: the pre-save hook, then the write under the
\* unique index; the reply is the one the handler's catch block gives
CategorySave(doc, failure) ==
    LET pre == CategoryPreSave(categories, doc) IN
    IF ~pre.ok THEN Reply(500, failure) @@ [categories |-> categories]
    ELSE IF ~CategoryIndexAllows(categories, pre.doc)
    THEN Reply(500, failure) @@ [categories |-> categories]
    ELSE Reply(200, "") @@
         [categories |-> [c \in DOMAIN categories \cup {doc.id} |->
                            IF c = doc.id THEN pre.doc ELSE categories[c]]]

\* POST /categories up to its write; ts is the decimal string of Date.now()
CategoriesPostPrepare(authHeader, body, ts) ==
    LET auth == requireAuth(authHeader)
        slugValue ==
            IF Has(body, "slug") /\ trim(body.slug) # <<>> THEN trim(body.slug)
            ELSE IF Slugify(body.name) # <<>> THEN Slugify(body.name)
            ELSE <<"c", "a", "t", "e", "g", "o", "r", "y", "-">> \o ts
        parentIdObj == IF Has(body, "parentId") THEN body.parentId ELSE 0
    IN
    IF ~auth.ok THEN Stop(auth.status, auth.error)
    ELSE IF ~Has(body, "name") \/ trim(body.name) = <<>>
    THEN Stop(400, "Category name is required")
    ELSE IF ~SlugRegexTest(slugValue)
    THEN Stop(400, "Slug must be URL-friendly (lowercase, hyphens only)")
    ELSE IF parentIdObj # 0 /\ CategoryFindById(parentIdObj).id = 0
    THEN Stop(400, "Parent category not found")
    ELSE IF CategoryFindOne(0, parentIdObj, slugValue)
    THEN Stop(409, "A category with this slug already exists under this parent")
    ELSE Proceed([id |-> nextId.category, name |-> trim(body.name),
                  slug |-> slugValue, parentId |-> parentIdObj,
                  level |-> 0, path |-> <<>>])

\* POST /categories
CategoriesPost(authHeader, body, ts) ==
    LET p == CategoriesPostPrepare(authHeader, body, ts) IN
    IF p.status # 0 THEN Reply(p.status, p.error) @@ [categories |-> categories]
    ELSE Created(CategorySave(p.doc, "Failed to create category"))

\* PUT /categories/:id up to its write
CategoriesPutPrepare(authHeader, id, body) ==
    LET auth == requireAuth(authHeader)
        category == CategoryFindById(id)
        slugValue == Slugify(body.slug)
        parentIdForUnique == IF Has(body, "parentId") THEN body.parentId ELSE category.parentId
        named == IF Has(body, "name") THEN [category EXCEPT !.name = trim(body.name)]
                 ELSE category
        slugged == IF Has(body, "slug") THEN [named EXCEPT !.slug = slugValue] ELSE named
        moved == IF Has(body, "parentId") THEN [slugged EXCEPT !.parentId = body.parentId]
                 ELSE slugged
    IN
    IF ~auth.ok THEN Stop(auth.status, auth.error)
    ELSE IF category.id = 0 THEN Stop(404, "Category not found")
    ELSE IF Has(body, "name") /\ trim(body.name) = <<>>
    THEN Stop(400, "Category name cannot be empty")
    ELSE IF Has(body, "slug") /\ (slugValue = <<>> \/ ~SlugRegexTest(slugValue))
    THEN Stop(400, "Slug must be URL-friendly (lowercase, hyphens only)")
    ELSE IF Has(body, "slug") /\ CategoryFindOne(id, parentIdForUnique, slugValue)
    THEN Stop(409, "A category with this slug already exists under this parent")
    ELSE IF Has(body, "parentId") /\ body.parentId # 0
            /\ CategoryFindById(body.parentId).id = 0
    THEN Stop(400, "Parent category not found")
    ELSE IF Has(body, "parentId") /\ body.parentId # 0 /\ body.parentId = id
    THEN Stop(400, "Category cannot be its own parent")
    ELSE Proceed(moved)

\* PUT /categories/:id
CategoriesPut(authHeader, id, body) ==
    LET p == CategoriesPutPrepare(authHeader, id, body) IN
    IF p.status # 0 THEN Reply(p.status, p.error) @@ [categories |-> categories]
    ELSE CategorySave(p.doc, "Failed to update category")

\* the delete handler without its children count
CategoriesDeleteUnguarded(authHeader, id) ==
    LET auth == requireAuth(authHeader)
        same == [categories |-> categories]
    IN
    IF ~auth.ok THEN Reply(auth.status, auth.error) @@ same
    ELSE IF CategoryFindById(id).id = 0 THEN Reply(404, "Category not found") @@ same
    ELSE Reply(204, "") @@
         [categories |-> [c \in DOMAIN categories \ {id} |-> categories[c]]]

\* DELETE /categories/:id
CategoriesDelete(authHeader, id) ==
    LET auth == requireAuth(authHeader)
        same == [categories |-> categories]
        childrenCount == Cardinality({c \in DOMAIN categories : categories[c].parentId = id})
    IN
    IF ~auth.ok THEN Reply(auth.status, auth.error) @@ same
    ELSE IF CategoryFindById(id).id = 0 THEN Reply(404, "Category not found") @@ same
    ELSE IF childrenCount > 0
    THEN Reply(400, "Cannot delete category that has subcategories. Delete or move children first.")
         @@ same
    ELSE Reply(204, "") @@
         [categories |-> [c \in DOMAIN categories \ {id} |-> categories[c]]]

(***************************************************************************)
(* Filters and the filter-inheritance resolver.                            *)
(***************************************************************************)
filterTypeEnum == {"select", "range", "checkbox", "number", "text"}

\* the characters of the model in code-point order (MongoDB compares strings
\* by code point under the default collation)
CodePointOrder == <<" ", "!", "$", "-", "0", "1", "A", "B", "a", "b", "c", "x">>
CharRank(c) == CHOOSE i \in 1..Len(CodePointOrder) : CodePointOrder[i] = c

RECURSIVE StrLess(_, _)
StrLess(a, b) ==
    IF b = <<>> THEN FALSE
    ELSE IF a = <<>> THEN TRUE
    ELSE IF Head(a) # Head(b) THEN CharRank(Head(a)) < CharRank(Head(b))
    ELSE StrLess(Tail(a), Tail(b))

\* .sort({ sortOrder: 1, name: 1 }): a sorts before b; documents equal in both
\* keys come in natural (insertion) order
FilterSortsBefore(a, b) ==
    \/ a.sortOrder < b.sortOrder
    \/ a.sortOrder = b.sortOrder /\ StrLess(a.name, b.name)
    \/ a.sortOrder = b.sortOrder /\ a.name = b.name /\ a.id < b.id

RECURSIVE SortFilters(_)
SortFilters(S) ==
    IF S = {} THEN <<>>
    ELSE LET first == CHOOSE f \in S : \A g \in S \ {f} : FilterSortsBefore(f, g)
         IN  <<first>> \o SortFilters(S \ {first})

\* the query without its isActive condition
FilterQueryMatchesInactive(f, category) ==
    \/ f.categoryId = category.id
    \/ /\ \E i \in 1..Len(category.path) : category.path[i] = f.categoryId
       /\ f.applyToChildren

\* the query document of getFiltersByCategory
FilterQueryMatches(f, category) ==
    /\ f.isActive
    /\ \/ f.categoryId = category.id
       \/ /\ \E i \in 1..Len(category.path) : category.path[i] = f.categoryId
          /\ f.applyToChildren

\* services/filterService.js getFiltersByCategory
getFiltersByCategory(categoryId) ==
    LET category == CategoryFindById(categoryId) IN
    IF category.id = 0 THEN [found |-> FALSE, filters |-> <<>>]
    ELSE [found |-> TRUE,
          filters |-> SortFilters({filters[f] : f \in
                        {g \in DOMAIN filters : FilterQueryMatches(filters[g], category)}})]

\* GET /filters/by-category/:categoryId
FiltersByCategory(categoryId) ==
    LET r == getFiltersByCategory(categoryId) IN
    IF ~r.found THEN Reply(404, "Category not found") ELSE Reply(200, "")

\* filterSchema.index({ slug: 1, categoryId: 1 }, { unique: true })
FilterIndexAllows(coll, doc) ==
    \A f \in DOMAIN coll :
        f # doc.id => ~(coll[f].slug = doc.slug /\ coll[f].categoryId = doc.categoryId)

\* the options validator; Mongoose runs no validator on an undefined value
FilterOptionsValid(doc) ==
    \/ ~doc.options.defined
    \/ doc.type # "select"
    \/ /\ doc.options.v # <<>>
       /\ \A i \in 1..Len(doc.options.v) : doc.options.v[i] # <<>>

\* the schema's validation of a filter document: the first message, or ""
FilterValidate(doc) ==
    IF doc.name = <<>> THEN "Filter name is required"
    ELSE IF doc.slug = <<>> THEN "Filter slug is required"
    ELSE IF ~SlugRegexTest(doc.slug) THEN "Slug must be URL-friendly (lowercase, hyphens only)"
    ELSE IF doc.type \notin filterTypeEnum
    THEN "Type must be one of: select, range, checkbox, number, text"
    ELSE IF ~FilterOptionsValid(doc) THEN "Select filters must have at least one option"
    ELSE IF doc.categoryId = 0 THEN "Category is required"
    ELSE ""

\* Filter.create / filter.save(): schema setters, validation, the unique index
FilterSave(doc, failure) ==
    LET set == [doc EXCEPT !.name = trim(@), !.slug = toLowerCase(trim(@))]
        same == [filters |-> filters]
    IN
    IF FilterValidate(set) # "" THEN Reply(400, FilterValidate(set)) @@ same
    ELSE IF ~FilterIndexAllows(filters, set) THEN Reply(500, failure) @@ same
    ELSE Reply(200, "") @@
         [filters |-> [f \in DOMAIN filters \cup {doc.id} |->
                         IF f = doc.id THEN set ELSE filters[f]]]

Undefined == [defined |-> FALSE, v |-> <<>>]
Defined(v) == [defined |-> TRUE, v |-> v]

\* POST /filters up to its write; ts is the decimal string of Date.now()
FiltersPostPrepare(authHeader, body, ts) ==
    LET auth == requireAuth(authHeader)
        slugValue ==
            IF Has(body, "slug") /\ trim(body.slug) # <<>> THEN trim(body.slug)
            ELSE IF Slugify(body.name) # <<>> THEN Slugify(body.name)
            ELSE <<"f", "i", "l", "t", "e", "r", "-">> \o ts
    IN
    IF ~auth.ok THEN Stop(auth.status, auth.error)
    ELSE IF \/ ~Has(body, "name") \/ body.name = <<>>
            \/ ~Has(body, "type") \/ body.type = ""
            \/ ~Has(body, "categoryId") \/ body.categoryId = 0
    THEN Stop(400, "name, type, and categoryId are required")
    ELSE Proceed([id |-> nextId.filter, name |-> trim(body.name), slug |-> slugValue,
                  type |-> body.type,
                  options |-> IF body.type = "select"
                              THEN Defined(IF Has(body, "options") THEN body.options
                                           ELSE <<>>)
                              ELSE Undefined,
                  categoryId |-> body.categoryId,
                  applyToChildren |-> Has(body, "applyToChildren") /\ body.applyToChildren,
                  sortOrder |-> IF Has(body, "sortOrder") THEN body.sortOrder ELSE 0,
                  isActive |-> ~(Has(body, "isActive") /\ ~body.isActive)])

\* POST /filters
FiltersPost(authHeader, body, ts) ==
    LET p == FiltersPostPrepare(authHeader, body, ts) IN
    IF p.status # 0 THEN Reply(p.status, p.error) @@ [filters |-> filters]
    ELSE Created(FilterSave(p.doc, "Failed to create filter"))

\* PUT /filters/:id; ts is the decimal string of Date.now()
FiltersPut(authHeader, id, body, ts) ==
    LET auth == requireAuth(authHeader)
        same == [filters |-> filters]
        filter == IF id \in DOMAIN filters THEN filters[id] ELSE [id |-> 0]
        named == IF Has(body, "name") THEN [filter EXCEPT !.name = trim(body.name)] ELSE filter
        slugValue ==
            IF trim(body.slug) # <<>> THEN trim(body.slug)
            ELSE IF Slugify(named.name) # <<>> THEN Slugify(named.name)
            ELSE <<"f", "i", "l", "t", "e", "r", "-">> \o ts
        slugged == IF Has(body, "slug") THEN [named EXCEPT !.slug = slugValue] ELSE named
        typed == IF Has(body, "type") THEN [slugged EXCEPT !.type = body.type] ELSE slugged
        optioned == IF Has(body, "options")
                    THEN [typed EXCEPT !.options = IF typed.type = "select"
                                                   THEN Defined(body.options) ELSE Undefined]
                    ELSE typed
        rest == [optioned EXCEPT
                   !.categoryId = IF Has(body, "categoryId") THEN body.categoryId ELSE @,
                   !.applyToChildren = IF Has(body, "applyToChildren")
                                       THEN body.applyToChildren ELSE @,
                   !.sortOrder = IF Has(body, "sortOrder") THEN body.sortOrder ELSE @,
                   !.isActive = IF Has(body, "isActive") THEN body.isActive ELSE @]
    IN
    IF ~auth.ok THEN Reply(auth.status, auth.error) @@ same
    ELSE IF filter.id = 0 THEN Reply(404, "Filter not found") @@ same
    ELSE IF Has(body, "name") /\ trim(body.name) = <<>>
    THEN Reply(400, "Name cannot be empty") @@ same
    ELSE IF Has(body, "slug") /\ ~SlugRegexTest(slugValue)
    THEN Reply(400, "Slug must be URL-friendly (lowercase, hyphens only)") @@ same
    ELSE FilterSave(rest, "Failed to update filter")

\* DELETE /filters/:id
FiltersDelete(authHeader, id) ==
    LET auth == requireAuth(authHeader) IN
    IF ~auth.ok THEN Reply(auth.status, auth.error) @@ [filters |-> filters]
    ELSE IF id \notin DOMAIN filters THEN Reply(404, "Filter not found") @@ [filters |-> filters]
    ELSE Reply(204, "") @@ [filters |-> [f \in DOMAIN filters \ {id} |-> filters[f]]]

(***************************************************************************)
(* Regions and cities.                                                     *)
(***************************************************************************)
\* regionSchema.index({ slug: 1 }, { unique: true })
RegionIndexAllows(coll, doc) ==
    \A r \in DOMAIN coll : r # doc.id => coll[r].slug # doc.slug

\* Region.findOne({ _id: { $ne: id }, slug }) finds a document
RegionFindOne(exceptId, slug) ==
    \E r \in DOMAIN regions : r # exceptId /\ regions[r].slug = slug

\* Region.create / region.save()
RegionSave(doc, failure) ==
    IF ~RegionIndexAllows(regions, doc) THEN Reply(500, failure) @@ [regions |-> regions]
    ELSE Reply(200, "") @@
         [regions |-> [r \in DOMAIN regions \cup {doc.id} |->
                         IF r = doc.id THEN doc ELSE regions[r]]]

\* POST /regions up to its write; ts is the decimal string of Date.now()
RegionsPostPrepare(authHeader, body, ts) ==
    LET auth == requireAuth(authHeader)
        slugValue ==
            IF Has(body, "slug") /\ trim(body.slug) # <<>> THEN Slugify(body.slug)
            ELSE IF Slugify(body.label) # <<>> THEN Slugify(body.label)
            ELSE <<"r", "e", "g", "i", "o", "n", "-">> \o ts
    IN
    IF ~auth.ok THEN Stop(auth.status, auth.error)
    ELSE IF ~Has(body, "label") \/ trim(body.label) = <<>>
    THEN Stop(400, "Region label is required")
    ELSE IF ~SlugRegexTest(slugValue)
    THEN Stop(400, "Slug must be URL-friendly (lowercase, hyphens only)")
    ELSE IF RegionFindOne(0, slugValue)
    THEN Stop(409, "A region with this slug already exists")
    ELSE Proceed([id |-> nextId.region, slug |-> slugValue,
                  label |-> trim(body.label)])

\* POST /regions
RegionsPost(authHeader, body, ts) ==
    LET p == RegionsPostPrepare(authHeader, body, ts) IN
    IF p.status # 0 THEN Reply(p.status, p.error) @@ [regions |-> regions]
    ELSE Created(RegionSave(p.doc, "Failed to create region"))

\* PUT /regions/:id up to its write
RegionsPutPrepare(authHeader, id, body) ==
    LET auth == requireAuth(authHeader)
        region == IF id \in DOMAIN regions THEN regions[id] ELSE [id |-> 0]
        slugValue == Slugify(body.slug)
        labelled == IF Has(body, "label") THEN [region EXCEPT !.label = trim(body.label)]
                    ELSE region
        slugged == IF Has(body, "slug") THEN [labelled EXCEPT !.slug = slugValue] ELSE labelled
    IN
    IF ~auth.ok THEN Stop(auth.status, auth.error)
    ELSE IF region.id = 0 THEN Stop(404, "Region not found")
    ELSE IF Has(body, "label") /\ trim(body.label) = <<>>
    THEN Stop(400, "Region label cannot be empty")
    ELSE IF Has(body, "slug") /\ (slugValue = <<>> \/ ~SlugRegexTest(slugValue))
    THEN Stop(400, "Slug must be URL-friendly (lowercase, hyphens only)")
    ELSE IF Has(body, "slug") /\ RegionFindOne(id, slugValue)
    THEN Stop(409, "A region with this slug already exists")
    ELSE Proceed(slugged)

\* PUT /regions/:id
RegionsPut(authHeader, id, body) ==
    LET p == RegionsPutPrepare(authHeader, id, body) IN
    IF p.status # 0 THEN Reply(p.status, p.error) @@ [regions |-> regions]
    ELSE RegionSave(p.doc, "Failed to update region")

\* DELETE /regions/:id
RegionsDelete(authHeader, id) ==
    LET auth == requireAuth(authHeader) IN
    IF ~auth.ok THEN Reply(auth.status, auth.error) @@ [regions |-> regions]
    ELSE IF id \notin DOMAIN regions THEN Reply(404, "Region not found") @@ [regions |-> regions]
    ELSE Reply(204, "") @@ [regions |-> [r \in DOMAIN regions \ {id} |-> regions[r]]]

\* citySchema.index({ regionId: 1, slug: 1 }, { unique: true })
CityIndexAllows(coll, doc) ==
    \A c \in DOMAIN coll :
        c # doc.id => ~(coll[c].regionId = doc.regionId /\ coll[c].slug = doc.slug)

\* City.findOne({ _id: { $ne: id }, regionId, slug }) finds a document
CityFindOne(exceptId, regionId, slug) ==
    \E c \in DOMAIN cities :
        c # exceptId /\ cities[c].regionId = regionId /\ cities[c].slug = slug

\* City.create / city.save()
CitySave(doc, failure) ==
    IF ~CityIndexAllows(cities, doc) THEN Reply(500, failure) @@ [cities |-> cities]
    ELSE Reply(200, "") @@
         [cities |-> [c \in DOMAIN cities \cup {doc.id} |->
                        IF c = doc.id THEN doc ELSE cities[c]]]

\* POST /cities up to its write; ts is the decimal string of Date.now()
CitiesPostPrepare(authHeader, body, ts) ==
    LET auth == requireAuth(authHeader)
        slugValue ==
            IF Has(body, "slug") /\ trim(body.slug) # <<>> THEN Slugify(body.slug)
            ELSE IF Slugify(body.label) # <<>> THEN Slugify(body.label)
            ELSE <<"c", "i", "t", "y", "-">> \o ts
    IN
    IF ~auth.ok THEN Stop(auth.status, auth.error)
    ELSE IF ~Has(body, "label") \/ trim(body.label) = <<>>
    THEN Stop(400, "City label is required")
    ELSE IF ~Has(body, "regionId") \/ body.regionId = 0
    THEN Stop(400, "Region is required")
    ELSE IF body.regionId \notin DOMAIN regions THEN Stop(400, "Region not found")
    ELSE IF ~SlugRegexTest(slugValue)
    THEN Stop(400, "Slug must be URL-friendly (lowercase, hyphens only)")
    ELSE IF CityFindOne(0, body.regionId, slugValue)
    THEN Stop(409, "A city with this slug already exists in this region")
    ELSE Proceed([id |-> nextId.city, slug |-> slugValue,
                  label |-> trim(body.label), regionId |-> body.regionId])

\* POST /cities
CitiesPost(authHeader, body, ts) ==
    LET p == CitiesPostPrepare(authHeader, body, ts) IN
    IF p.status # 0 THEN Reply(p.status, p.error) @@ [cities |-> cities]
    ELSE Created(CitySave(p.doc, "Failed to create city"))

\* PUT /cities/:id up to its write
CitiesPutPrepare(authHeader, id, body) ==
    LET auth == requireAuth(authHeader)
        city == IF id \in DOMAIN cities THEN cities[id] ELSE [id |-> 0]
        slugValue == Slugify(body.slug)
        labelled == IF Has(body, "label") THEN [city EXCEPT !.label = trim(body.label)] ELSE city
        moved == IF Has(body, "regionId") THEN [labelled EXCEPT !.regionId = body.regionId]
                 ELSE labelled
        slugged == IF Has(body, "slug") THEN [moved EXCEPT !.slug = slugValue] ELSE moved
    IN
    IF ~auth.ok THEN Stop(auth.status, auth.error)
    ELSE IF city.id = 0 THEN Stop(404, "City not found")
    ELSE IF Has(body, "label") /\ trim(body.label) = <<>>
    THEN Stop(400, "City label cannot be empty")
    ELSE IF Has(body, "regionId") /\ body.regionId \notin DOMAIN regions
    THEN Stop(400, "Region not found")
    ELSE IF Has(body, "slug") /\ (slugValue = <<>> \/ ~SlugRegexTest(slugValue))
    THEN Stop(400, "Slug must be URL-friendly (lowercase, hyphens only)")
    ELSE IF Has(body, "slug") /\ CityFindOne(id, moved.regionId, slugValue)
    THEN Stop(409, "A city with this slug already exists in this region")
    ELSE Proceed(slugged)

\* PUT /cities/:id
CitiesPut(authHeader, id, body) ==
    LET p == CitiesPutPrepare(authHeader, id, body) IN
    IF p.status # 0 THEN Reply(p.status, p.error) @@ [cities |-> cities]
    ELSE CitySave(p.doc, "Failed to update city")

\* DELETE /cities/:id
CitiesDelete(authHeader, id) ==
    LET auth == requireAuth(authHeader) IN
    IF ~auth.ok THEN Reply(auth.status, auth.error) @@ [cities |-> cities]
    ELSE IF id \notin DOMAIN cities THEN Reply(404, "City not found") @@ [cities |-> cities]
    ELSE Reply(204, "") @@ [cities |-> [c \in DOMAIN cities \ {id} |-> cities[c]]]

(***************************************************************************)
(* Listings (the /products routes).                                        *)
(***************************************************************************)
rentPeriodEnum == {"hour", "day", "week", "month"}
statusEnum == {"active", "sold", "rented", "expired"}

\* Number(x): NaN, or an integer
NaN == [nan |-> TRUE, v |-> 0]
Num(v) == [nan |-> FALSE, v |-> v]

\* routes/products.js slugFromTitle; ts is the decimal string of Date.now()
slugFromTitle(title, ts) ==
    LET t == StripEdgeHyphens(CollapseHyphens(Slugify(title))) IN
    IF title = <<>> \/ t = <<>> THEN <<"l", "i", "s", "t", "i", "n", "g", "-">> \o ts ELSE t

\* listingSchema.index({ slug: 1 }, { unique: true })
ListingIndexAllows(coll, doc) ==
    \A l \in DOMAIN coll : l # doc.id => coll[l].slug # doc.slug

\* Listing.findOne({ slug, _id: { $ne: id } }) finds a document
ListingFindOne(exceptId, slug) ==
    \E l \in DOMAIN listings : l # exceptId /\ listings[l].slug = slug

\* body.attributes.filter(...).map(...)
RECURSIVE ListingAttributes(_)
ListingAttributes(attrs) ==
    IF attrs = <<>> THEN <<>>
    ELSE LET a == Head(attrs) IN
         IF a.filterId # 0 /\ a.hasValue
         THEN <<[filterId |-> a.filterId, value |-> a.value]>> \o ListingAttributes(Tail(attrs))
         ELSE ListingAttributes(Tail(attrs))

\* body.images.filter((u) => typeof u === 'string' && u.trim())
ListingImages(images) == SelectSeq(images, LAMBDA u : trim(u) # <<>>)

\* the schema's validation of a listing document: the first message, or ""
ListingValidate(doc) ==
    IF doc.title = <<>> THEN "Title is required"
    ELSE IF doc.slug = <<>> THEN "Slug is required"
    ELSE IF ~SlugRegexTest(doc.slug) THEN "Slug must be URL-friendly (lowercase, hyphens only)"
    ELSE IF doc.description = <<>> THEN "Description is required"
    ELSE IF doc.category.name = <<>> THEN "Category name is required"
    ELSE IF doc.category.slug = <<>> THEN "Category slug is required"
    ELSE IF doc.price < 0 THEN "Price cannot be negative"
    ELSE IF doc.rentPeriod # "" /\ doc.rentPeriod \notin rentPeriodEnum
    THEN "Rent period must be one of: hour, day, week, month"
    ELSE IF doc.type = "rent" /\ doc.rentPeriod = "" THEN "Path rentPeriod is required."
    ELSE IF doc.location.region = <<>> THEN "Region is required"
    ELSE IF doc.location.city = <<>> THEN "City is required"
    ELSE IF doc.status \notin statusEnum
    THEN "Status must be one of: active, sold, rented, expired"
    ELSE ""

\* listingSchema.pre('save')
ListingPreSave(doc) ==
    LET cleared == IF doc.type = "sell" THEN [doc EXCEPT !.rentPeriod = ""] ELSE doc IN
    IF cleared.type = "rent" /\ cleared.rentPeriod = ""
    THEN [ok |-> FALSE, doc |-> cleared]
    ELSE [ok |-> TRUE,
          doc |-> IF cleared.thumbnail = <<>> /\ cleared.images # <<>>
                  THEN [cleared EXCEPT !.thumbnail = cleared.images[1]] ELSE cleared]

\* Listing.create / listing.save(): setters, validation, the pre-save hook, the
\* unique index; the reply is the one the handler's catch block gives
ListingSave(doc, failure) ==
    LET set == [doc EXCEPT !.title = trim(@), !.slug = toLowerCase(trim(@)),
                           !.description = trim(@),
                           !.category = [name |-> trim(@.name),
                                         slug |-> toLowerCase(trim(@.slug))],
                           !.location = [region |-> trim(@.region), city |-> trim(@.city)]]
        pre == ListingPreSave(set)
        same == [listings |-> listings]
    IN
    IF ListingValidate(set) # "" THEN Reply(400, ListingValidate(set)) @@ same
    ELSE IF ~pre.ok THEN Reply(500, failure) @@ same
    ELSE IF ~ListingIndexAllows(listings, pre.doc)
    THEN Reply(409, "A listing with this slug already exists") @@ same
    ELSE Reply(200, "") @@
         [listings |-> [l \in DOMAIN listings \cup {doc.id} |->
                          IF l = doc.id THEN pre.doc ELSE listings[l]]]

\* body.type === 'rent' ? 'rent' : 'sell'
ListingType(body) == IF Has(body, "type") /\ body.type = "rent" THEN "rent" ELSE "sell"

\* a rent period of 'day' for a rent listing that names none
PostRentPeriodDefaulted(type, body) ==
    IF type # "rent" THEN ""
    ELSE IF Has(body, "rentPeriod") /\ body.rentPeriod # "" THEN body.rentPeriod
    ELSE "day"

\* type === 'rent' ? (body.rentPeriod || null) : undefined; "" is no rent period
PostRentPeriod(type, body) ==
    IF type = "rent" /\ Has(body, "rentPeriod") THEN body.rentPeriod ELSE ""

\* the price of the body kept whatever the price type
PriceValueKept(priceType, price) == price.v

\* priceType === 'negotiable' ? (Number.isNaN(price) || price < 0 ? 0 : price) : price
PriceValue(priceType, price) ==
    IF priceType = "negotiable" THEN (IF price.nan \/ price.v < 0 THEN 0 ELSE price.v)
    ELSE price.v

\* an owner taken from the body when the body names one
ListingOwnerFromBody(auth, body) ==
    IF Has(body, "ownerId") THEN body.ownerId ELSE auth.user

\* const ownerId = req.user._id || new mongoose.Types.ObjectId(req.user.id)
ListingOwner(auth, body) == auth.user

\* POST /products up to its write; ts is the decimal string of Date.now()
ProductsPostPrepare(authHeader, body, ts) ==
    LET auth == requireAuth(authHeader)
        title == IF Has(body, "title") THEN trim(body.title) ELSE <<>>
        given == StripEdgeHyphens(CollapseHyphens(Slugify(body.slug)))
        slug == IF Has(body, "slug") /\ trim(body.slug) # <<>> /\ given # <<>> THEN given
                ELSE slugFromTitle(title, ts)
        description == IF Has(body, "description") THEN trim(body.description) ELSE <<>>
        type == ListingType(body)
        categoryId == IF Has(body, "categoryId") THEN body.categoryId ELSE 0
        price == IF Has(body, "price") THEN body.price ELSE NaN
        priceType == IF Has(body, "priceType") /\ body.priceType = "negotiable"
                     THEN "negotiable" ELSE "fixed"
        priceValue == PriceValue(priceType, price)
        rentPeriod == PostRentPeriod(type, body)
        images == IF Has(body, "images") THEN ListingImages(body.images) ELSE <<>>
        thumbnail == IF Has(body, "thumbnail") /\ trim(body.thumbnail) # <<>>
                     THEN trim(body.thumbnail)
                     ELSE IF images # <<>> THEN images[1] ELSE <<>>
    IN
    IF ~auth.ok THEN Stop(auth.status, auth.error)
    ELSE IF title = <<>> THEN Stop(400, "Title is required")
    ELSE IF ~SlugRegexTest(slug)
    THEN Stop(400, "Slug must be URL-friendly (lowercase, hyphens only)")
    ELSE IF ListingFindOne(0, slug)
    THEN Stop(409, "A listing with this slug already exists")
    ELSE IF description = <<>> THEN Stop(400, "Description is required")
    ELSE IF ~Has(body, "category") \/ body.category.name = <<>> \/ body.category.slug = <<>>
    THEN Stop(400, "Category with name and slug is required")
    ELSE IF categoryId # 0 /\ CategoryFindById(categoryId).id = 0
    THEN Stop(400, "Category not found")
    ELSE IF priceType = "fixed" /\ (price.nan \/ price.v < 0)
    THEN Stop(400, "Valid price is required")
    ELSE IF type = "rent" /\ rentPeriod = ""
    THEN Stop(400, "Rent period is required for rent listings")
    ELSE IF ~Has(body, "location") \/ body.location.region = <<>> \/ body.location.city = <<>>
    THEN Stop(400, "Location with region and city is required")
    ELSE Proceed([id |-> nextId.listing, title |-> title, slug |-> slug,
                  description |-> description, type |-> type,
                  category |-> [name |-> body.category.name,
                                slug |-> body.category.slug],
                  categoryId |-> categoryId,
                  attributes |-> IF Has(body, "attributes")
                                 THEN ListingAttributes(body.attributes) ELSE <<>>,
                  price |-> priceValue, priceType |-> priceType,
                  rentPeriod |-> IF type = "rent" THEN rentPeriod ELSE "",
                  images |-> images, thumbnail |-> thumbnail,
                  location |-> [region |-> trim(body.location.region),
                                city |-> trim(body.location.city)],
                  ownerId |-> ListingOwner(auth, body),
                  status |-> IF Has(body, "status") /\ body.status # ""
                             THEN body.status ELSE "active"])

\* POST /products
ProductsPost(authHeader, body, ts) ==
    LET p == ProductsPostPrepare(authHeader, body, ts) IN
    IF p.status # 0 THEN Reply(p.status, p.error) @@ [listings |-> listings]
    ELSE Created(ListingSave(p.doc, "Failed to create product"))

\* an update to type rent without a rent period given 'day'
PutTypeAndPeriodDefaulted(listing, body) ==
    LET newType == IF Has(body, "type") THEN ListingType(body) ELSE listing.type IN
    [listing EXCEPT !.type = newType,
                    !.rentPeriod = IF newType = "sell" THEN ""
                                   ELSE IF Has(body, "rentPeriod") /\ body.rentPeriod # ""
                                   THEN body.rentPeriod
                                   ELSE IF @ # "" THEN @ ELSE "day"]

\* the type and rentPeriod assignments of PUT /products/:id
PutTypeAndPeriod(listing, body) ==
    LET newType == ListingType(body)
        typed == IF Has(body, "type")
                 THEN [listing EXCEPT
                         !.type = newType,
                         !.rentPeriod = IF newType = "sell" THEN ""
                                        ELSE IF Has(body, "rentPeriod") /\ body.rentPeriod # ""
                                        THEN body.rentPeriod ELSE @]
                 ELSE listing
    IN  IF Has(body, "rentPeriod") /\ typed.type = "rent"
        THEN [typed EXCEPT !.rentPeriod = body.rentPeriod] ELSE typed

\* PUT /products/:id up to its write
ProductsPutPrepare(authHeader, id, body) ==
    LET auth == requireAuth(authHeader)
        listing == IF id \in DOMAIN listings THEN listings[id] ELSE [id |-> 0]
        titled == IF Has(body, "title") THEN [listing EXCEPT !.title = trim(body.title)]
                  ELSE listing
        slug == IF trim(body.slug) # <<>> THEN trim(body.slug)
                ELSE StripNonSlug(ReplaceSpaces(toLowerCase(titled.title)))
        slugged == IF Has(body, "slug") THEN [titled EXCEPT !.slug = slug] ELSE titled
        described == IF Has(body, "description")
                     THEN [slugged EXCEPT !.description = trim(body.description)] ELSE slugged
        rented == PutTypeAndPeriod(described, body)
        categorized ==
            [rented EXCEPT
               !.category = IF Has(body, "category") /\ body.category.name # <<>>
                               /\ body.category.slug # <<>>
                            THEN [name |-> body.category.name, slug |-> body.category.slug]
                            ELSE @,
               !.categoryId = IF Has(body, "categoryId") THEN body.categoryId ELSE @,
               !.attributes = IF Has(body, "attributes") THEN ListingAttributes(body.attributes)
                              ELSE @,
               !.price = IF Has(body, "price") /\ ~body.price.nan /\ body.price.v >= 0
                         THEN body.price.v ELSE @,
               !.priceType = IF Has(body, "priceType")
                             THEN (IF body.priceType = "negotiable" THEN "negotiable"
                                   ELSE "fixed")
                             ELSE @,
               !.location = IF Has(body, "location") /\ body.location.region # <<>>
                               /\ body.location.city # <<>>
                            THEN [region |-> trim(body.location.region),
                                  city |-> trim(body.location.city)]
                            ELSE @,
               !.images = IF Has(body, "images") THEN ListingImages(body.images) ELSE @]
        rest ==
            [categorized EXCEPT
               !.thumbnail = IF Has(body, "thumbnail")
                             THEN (IF trim(body.thumbnail) # <<>> THEN trim(body.thumbnail)
                                   ELSE IF categorized.images # <<>> THEN categorized.images[1]
                                   ELSE <<>>)
                             ELSE @,
               !.status = IF Has(body, "status") THEN body.status ELSE @]
    IN
    IF ~auth.ok THEN Stop(auth.status, auth.error)
    ELSE IF listing.id = 0 THEN Stop(404, "Product not found")
    ELSE IF Has(body, "title") /\ trim(body.title) = <<>>
    THEN Stop(400, "Title cannot be empty")
    ELSE IF Has(body, "slug") /\ (slug = <<>> \/ ~SlugRegexTest(slug))
    THEN Stop(400, "Slug must be URL-friendly (lowercase, hyphens only)")
    ELSE IF Has(body, "slug") /\ ListingFindOne(id, slug)
    THEN Stop(409, "A listing with this slug already exists")
    ELSE IF Has(body, "description") /\ trim(body.description) = <<>>
    THEN Stop(400, "Description cannot be empty")
    ELSE Proceed(rest)

\* PUT /products/:id
ProductsPut(authHeader, id, body) ==
    LET p == ProductsPutPrepare(authHeader, id, body) IN
    IF p.status # 0 THEN Reply(p.status, p.error) @@ [listings |-> listings]
    ELSE ListingSave(p.doc, "Failed to update product")

\* the delete route mounted without requireAuth
ProductsDeleteOpen(authHeader, id) ==
    IF id \notin DOMAIN listings
    THEN Reply(404, "Product not found") @@ [listings |-> listings]
    ELSE Reply(204, "") @@ [listings |-> [l \in DOMAIN listings \ {id} |-> listings[l]]]

\* DELETE /products/:id
ProductsDelete(authHeader, id) ==
    LET auth == requireAuth(authHeader) IN
    IF ~auth.ok THEN Reply(auth.status, auth.error) @@ [listings |-> listings]
    ELSE IF id \notin DOMAIN listings
    THEN Reply(404, "Product not found") @@ [listings |-> listings]
    ELSE Reply(204, "") @@ [listings |-> [l \in DOMAIN listings \ {id} |-> listings[l]]]

(***************************************************************************)
(* The state machine: one action per request, the handler run to its       *)
(* reply.  res is the reply of the last request.                           *)
(***************************************************************************)
Empty == [x \in {} |-> x]

\* the requests being handled: each is idle, or between its pre-check and its write
Threads == 1..MaxThreads
Idle == [kind |-> "idle"]

Init ==
    /\ users = Empty
    /\ categories = Empty
    /\ filters = Empty
    /\ regions = Empty
    /\ cities = Empty
    /\ listings = Empty
    /\ nextId = [user |-> 1, category |-> 1, filter |-> 1, region |-> 1, city |-> 1,
                 listing |-> 1]
    /\ issued = {}
    /\ now = 0
    /\ res = [op |-> "none", status |-> 0]
    /\ pending = [t \in Threads |-> Idle]
    /\ started = 0
    /\ objects = Empty
    /\ job = [pc |-> "idle"]
    /\ presigned = [calls |-> 0, slots |-> <<>>]

Bump(counter, status) == [nextId EXCEPT ![counter] = IF status = 201 THEN @ + 1 ELSE @]

Register(body) ==
    LET r == AuthRegister(body) IN
    /\ r.status = 201 => nextId.user <= MaxUsers
    /\ users' = r.users
    /\ nextId' = Bump("user", r.status)
    /\ issued' = IF r.status = 201 THEN issued \cup {r.token} ELSE issued
    /\ res' = [op |-> "AuthRegister", status |-> r.status]
    /\ UNCHANGED <<categories, filters, regions, cities, listings, now, pending, started, imageVars>>

PostCategory(authHeader, body, ts) ==
    LET r == CategoriesPost(authHeader, body, ts) IN
    /\ nextId.category <= MaxCategories
    /\ \A c \in DOMAIN r.categories : Len(r.categories[c].path) <= MaxPathLen
    /\ categories' = r.categories
    /\ nextId' = Bump("category", r.status)
    /\ res' = [op |-> "CategoriesPost", status |-> r.status]
    /\ UNCHANGED <<users, filters, regions, cities, listings, issued, now, pending, started, imageVars>>

PutCategory(authHeader, id, body) ==
    LET r == CategoriesPut(authHeader, id, body) IN
    /\ \A c \in DOMAIN r.categories : Len(r.categories[c].path) <= MaxPathLen
    /\ categories' = r.categories
    /\ res' = [op |-> "CategoriesPut", status |-> r.status]
    /\ UNCHANGED <<users, filters, regions, cities, listings, nextId, issued, now,
                 pending, started, imageVars>>

DeleteCategory(authHeader, id) ==
    LET r == CategoriesDelete(authHeader, id) IN
    /\ categories' = r.categories
    /\ res' = [op |-> "CategoriesDelete", status |-> r.status]
    /\ UNCHANGED <<users, filters, regions, cities, listings, nextId, issued, now,
                 pending, started, imageVars>>

\* the Authorization headers a client can send: none, or a token it was issued
Headers == {NoHeader} \cup {Bearer(t) : t \in issued}

\* the request bodies of the category specification
SpecRegisterBodies ==
    {[fields |-> {"email", "password", "firstName", "lastName"},
      email |-> <<"a">>, password |-> <<"s", "e", "c", "r", "e", "t">>,
      firstName |-> <<"A">>, lastName |-> <<"B">>, businessName |-> <<>>,
      userType |-> "physical"]}

CategoryIds == 0..MaxCategories

SpecCategoryPosts ==
    {[fields |-> {"name", "slug", "parentId"}, name |-> <<"b">>, slug |-> sl, parentId |-> p] :
        sl \in {<<"a">>, <<"A">>}, p \in CategoryIds}
    \cup {[fields |-> {"name", "parentId"}, name |-> n, slug |-> <<>>, parentId |-> p] :
            n \in {<<"b", " ">>, <<" ">>}, p \in CategoryIds}

SpecCategoryPuts ==
    {[fields |-> {"parentId"}, name |-> <<>>, slug |-> <<>>, parentId |-> p] : p \in CategoryIds}
    \cup {[fields |-> {"slug"}, name |-> <<>>, slug |-> sl, parentId |-> 0] :
            sl \in {<<"a">>, <<" ", "B">>, <<"-">>}}
    \cup {[fields |-> {"slug", "parentId"}, name |-> <<>>, slug |-> <<"b">>, parentId |-> p] :
            p \in CategoryIds}
    \cup {[fields |-> {"name"}, name |-> n, slug |-> <<>>, parentId |-> 0] :
            n \in {<<"b", " ">>, <<" ">>}}

Next ==
    \/ \E body \in SpecRegisterBodies : Register(body)
    \/ \E h \in Headers, body \in SpecCategoryPosts : PostCategory(h, body, <<"0">>)
    \/ \E h \in Headers, id \in 1..MaxCategories, body \in SpecCategoryPuts :
          PutCategory(h, id, body)
    \/ \E h \in Headers, id \in 1..MaxCategories : DeleteCategory(h, id)

Spec == Init /\ [][Next]_vars

(***************************************************************************)
(* The filter specification: categories that are created, moved and        *)
(* deleted, filters that are created, updated and deleted, and the         *)
(* resolver read.                                                          *)
(***************************************************************************)
PostFilter(authHeader, body, ts) ==
    LET r == FiltersPost(authHeader, body, ts) IN
    /\ nextId.filter <= MaxFilters
    /\ filters' = r.filters
    /\ nextId' = Bump("filter", r.status)
    /\ res' = [op |-> "FiltersPost", status |-> r.status]
    /\ UNCHANGED <<users, categories, regions, cities, listings, issued, now, pending, started, imageVars>>

PutFilter(authHeader, id, body, ts) ==
    LET r == FiltersPut(authHeader, id, body, ts) IN
    /\ filters' = r.filters
    /\ res' = [op |-> "FiltersPut", status |-> r.status]
    /\ UNCHANGED <<users, categories, regions, cities, listings, nextId, issued, now,
                 pending, started, imageVars>>

DeleteFilter(authHeader, id) ==
    LET r == FiltersDelete(authHeader, id) IN
    /\ filters' = r.filters
    /\ res' = [op |-> "FiltersDelete", status |-> r.status]
    /\ UNCHANGED <<users, categories, regions, cities, listings, nextId, issued, now,
                 pending, started, imageVars>>

GetFiltersByCategory(categoryId) ==
    /\ res' = [op |-> "FiltersByCategory", status |-> FiltersByCategory(categoryId).status]
    /\ UNCHANGED <<users, categories, filters, regions, cities, listings, nextId, issued, now,
                 pending, started, imageVars>>

FilterFields == {"name", "slug", "type", "options", "categoryId", "applyToChildren",
                 "sortOrder", "isActive"}

\* a filter body with the keys in fields, the others undefined
FilterBody(fields, name, categoryId, applyToChildren, sortOrder, isActive) ==
    [fields |-> fields, name |-> name, slug |-> <<>>, type |-> "text", options |-> <<>>,
     categoryId |-> categoryId, applyToChildren |-> applyToChildren,
     sortOrder |-> sortOrder, isActive |-> isActive]

FilterSpecCategoryPosts ==
    {[fields |-> {"name", "parentId"}, name |-> <<"a">>, slug |-> <<>>, parentId |-> p] :
        p \in CategoryIds}

FilterSpecCategoryPuts ==
    {[fields |-> {"slug", "parentId"}, name |-> <<>>, slug |-> <<"b">>, parentId |-> 0]}

FilterSpecFilterPosts ==
    {FilterBody({"name", "type", "categoryId", "applyToChildren", "sortOrder"},
                k[2], c, atc, k[1], TRUE) :
        k \in {<<0, <<"a">> >>, <<0, <<"B">> >>, <<1, <<"a">> >>},
        c \in {1, 2}, atc \in BOOLEAN}

FilterSpecFilterPuts ==
    {FilterBody({"isActive"}, <<>>, 0, FALSE, 0, FALSE)}

\* the headers of a logged-in client
AuthedHeaders == {Bearer(t) : t \in issued}

FilterNext ==
    \/ \E body \in SpecRegisterBodies : Register(body)
    \/ \E h \in AuthedHeaders, body \in FilterSpecCategoryPosts : PostCategory(h, body, <<"0">>)
    \/ \E h \in AuthedHeaders, id \in 1..MaxCategories, body \in FilterSpecCategoryPuts :
          PutCategory(h, id, body)
    \/ \E h \in AuthedHeaders, id \in 1..MaxCategories : DeleteCategory(h, id)
    \/ \E h \in AuthedHeaders, body \in FilterSpecFilterPosts : PostFilter(h, body, <<"0">>)
    \/ \E h \in AuthedHeaders, id \in 1..MaxFilters, body \in FilterSpecFilterPuts :
          PutFilter(h, id, body, <<"0">>)
    \/ \E h \in AuthedHeaders, id \in 1..MaxFilters : DeleteFilter(h, id)
    \/ \E id \in 1..MaxCategories : GetFiltersByCategory(id)

FilterSpec == Init /\ [][FilterNext]_vars

(***************************************************************************)
(* The category tree: claims C1, C4, C5 (specification Spec).              *)
(***************************************************************************)
\* C1: every stored category that has a parent has the parent's level plus one
\* and the parent's path followed by the parent's id; every stored category
\* without a parent has level 0 and an empty path.
C1_PathAndLevelFollowParent ==
    \A c \in DOMAIN categories :
        LET cat == categories[c] IN
        IF cat.parentId = 0 THEN cat.level = 0 /\ cat.path = <<>>
        ELSE /\ cat.parentId \in DOMAIN categories
             /\ cat.level = categories[cat.parentId].level + 1
             /\ cat.path = Append(categories[cat.parentId].path, cat.parentId)

HasChildren(id) == \E c \in DOMAIN categories : categories[c].parentId = id

\* C4: an authenticated DELETE of a stored category that is some category's
\* parent is answered 400 (HasChildren) and changes no category; of a stored
\* category without children it removes that category and nothing else.
C4_DeleteBlockedByChildren ==
    \A h \in Headers, id \in 1..MaxCategories :
        LET r == CategoriesDelete(h, id) IN
        (requireAuth(h).ok /\ id \in DOMAIN categories) =>
            IF HasChildren(id)
            THEN /\ r.status = 400
                 /\ r.error = "Cannot delete category that has subcategories. Delete or move children first."
                 /\ r.categories = categories
            ELSE /\ r.status = 204
                 /\ DOMAIN r.categories = DOMAIN categories \ {id}
                 /\ \A c \in DOMAIN r.categories : r.categories[c] = categories[c]

\* a delete was refused because of children, and the children are still there
C4_Witness ==
    /\ res.op = "CategoriesDelete"
    /\ res.status = 400
    /\ \E id \in DOMAIN categories : HasChildren(id)

\* two stored categories share a slug under one parent
CategoryDuplicate(coll) ==
    \E c, d \in DOMAIN coll :
        c # d /\ coll[c].parentId = coll[d].parentId /\ coll[c].slug = coll[d].slug

\* the category a valid PUT body asks for
PutTarget(id, body) ==
    [categories[id] EXCEPT
       !.slug = IF Has(body, "slug") THEN Slugify(body.slug) ELSE @,
       !.parentId = IF Has(body, "parentId") THEN body.parentId ELSE @]

\* C5: an authenticated, otherwise valid category create or update whose
\* result would be two stored categories with one slug under one parent
\* (an update of parentId alone included) is answered 409 and changes no
\* category.
C5_DuplicateSlugIsConflict ==
    /\ \A h \in Headers, body \in SpecCategoryPosts :
          LET r == CategoriesPost(h, body, <<"0">>)
              slug == IF Has(body, "slug") THEN trim(body.slug) ELSE Slugify(body.name)
          IN  (/\ requireAuth(h).ok
               /\ trim(body.name) # <<>>
               /\ SlugRegexTest(slug)
               /\ body.parentId \in DOMAIN categories \cup {0}
               /\ \E c \in DOMAIN categories :
                     categories[c].parentId = body.parentId /\ categories[c].slug = slug)
              => (r.status = 409 /\ r.categories = categories)
    /\ \A h \in Headers, id \in DOMAIN categories, body \in SpecCategoryPuts :
          LET r == CategoriesPut(h, id, body)
              target == PutTarget(id, body)
          IN  (/\ requireAuth(h).ok
               /\ Has(body, "name") => trim(body.name) # <<>>
               /\ SlugRegexTest(target.slug)
               /\ target.parentId \in (DOMAIN categories \cup {0}) \ {id}
               /\ \E c \in DOMAIN categories \ {id} :
                     categories[c].parentId = target.parentId
                     /\ categories[c].slug = target.slug)
              => (r.status = 409 /\ r.categories = categories)

(***************************************************************************)
(* The resolver: claims C2, C3 (specification FilterSpec).                 *)
(***************************************************************************)
\* the ids of the filters getFiltersByCategory returns, in order
ReturnedIds(categoryId) ==
    LET r == getFiltersByCategory(categoryId) IN [i \in 1..Len(r.filters) |-> r.filters[i].id]

InSeq(x, seq) == \E i \in 1..Len(seq) : seq[i] = x

\* C2: getFiltersByCategory returns null for an id that resolves to no
\* category; otherwise it returns exactly the active filters assigned to the
\* category or, with applyToChildren, to an id on the category's path, each
\* once, ordered by sortOrder ascending and then name ascending.
C2_ResolverResult ==
    \A id \in 1..MaxCategories :
        LET r == getFiltersByCategory(id)
            ids == ReturnedIds(id)
            expected == {f \in DOMAIN filters :
                           /\ filters[f].isActive
                           /\ \/ filters[f].categoryId = id
                              \/ /\ InSeq(filters[f].categoryId, categories[id].path)
                                 /\ filters[f].applyToChildren}
        IN  IF id \notin DOMAIN categories THEN ~r.found
            ELSE /\ r.found
                 /\ {ids[i] : i \in 1..Len(ids)} = expected
                 /\ Len(ids) = Cardinality(expected)
                 /\ \A i \in 1..Len(ids) : r.filters[i] = filters[ids[i]]
                 /\ \A i, j \in 1..Len(ids) :
                       i < j => \/ r.filters[i].sortOrder < r.filters[j].sortOrder
                                \/ /\ r.filters[i].sortOrder = r.filters[j].sortOrder
                                   /\ ~StrLess(r.filters[j].name, r.filters[i].name)

\* the resolver was read while some category gets exactly one filter, inherited
\* from its path, and an inactive filter of its own is left out
C2_Witness ==
    /\ res.op = "FiltersByCategory"
    /\ res.status = 200
    /\ \E id \in DOMAIN categories :
          /\ Len(ReturnedIds(id)) = 1
          /\ filters[ReturnedIds(id)[1]].categoryId # id
          /\ \E f \in DOMAIN filters : filters[f].categoryId = id /\ ~filters[f].isActive

\* the categories reached from c by following parentId links upward
RECURSIVE Upward(_, _)
Upward(c, seen) ==
    IF c \notin DOMAIN categories \/ categories[c].parentId = 0
       \/ categories[c].parentId \in seen
    THEN seen
    ELSE Upward(categories[c].parentId, seen \cup {categories[c].parentId})

Ancestors(c) == Upward(c, {})

\* C3: the result for a stored category C contains an active filter F that is
\* not assigned to C itself exactly when F.applyToChildren holds and
\* F.categoryId is an ancestor of C along the parentId links.
C3_InheritedIffAncestor ==
    \A c \in DOMAIN categories, f \in DOMAIN filters :
        (filters[f].isActive /\ filters[f].categoryId # c) =>
            (InSeq(f, ReturnedIds(c))
                <=> (filters[f].applyToChildren /\ filters[f].categoryId \in Ancestors(c)))

(***************************************************************************)
(* The authentication specification: register, login, the clock, and every *)
(* mutating route behind requireAuth.                                      *)
(***************************************************************************)
Login(body) ==
    LET r == AuthLogin(body) IN
    /\ issued' = IF r.status = 200 THEN issued \cup {r.token} ELSE issued
    /\ res' = [op |-> "AuthLogin", status |-> r.status]
    /\ UNCHANGED <<users, categories, filters, regions, cities, listings, nextId, now,
                 pending, started, imageVars>>

\* time passes
Tick(d) ==
    /\ now + d <= MaxPeriods * TokenTtl
    /\ now' = now + d
    /\ UNCHANGED <<users, categories, filters, regions, cities, listings, nextId, issued, res,
                 pending, started, imageVars>>

PatchMe(authHeader, body) ==
    LET r == AuthPatchMe(authHeader, body) IN
    /\ users' = r.users
    /\ res' = [op |-> "AuthPatchMe", status |-> r.status]
    /\ UNCHANGED <<categories, filters, regions, cities, listings, nextId, issued, now,
                 pending, started, imageVars>>

PostRegion(authHeader, body, ts) ==
    LET r == RegionsPost(authHeader, body, ts) IN
    /\ r.status = 201 => nextId.region <= MaxRegions
    /\ regions' = r.regions
    /\ nextId' = Bump("region", r.status)
    /\ res' = [op |-> "RegionsPost", status |-> r.status]
    /\ UNCHANGED <<users, categories, filters, cities, listings, issued, now, pending, started, imageVars>>

PutRegion(authHeader, id, body) ==
    LET r == RegionsPut(authHeader, id, body) IN
    /\ regions' = r.regions
    /\ res' = [op |-> "RegionsPut", status |-> r.status]
    /\ UNCHANGED <<users, categories, filters, cities, listings, nextId, issued, now,
                 pending, started, imageVars>>

DeleteRegion(authHeader, id) ==
    LET r == RegionsDelete(authHeader, id) IN
    /\ regions' = r.regions
    /\ res' = [op |-> "RegionsDelete", status |-> r.status]
    /\ UNCHANGED <<users, categories, filters, cities, listings, nextId, issued, now,
                 pending, started, imageVars>>

PostCity(authHeader, body, ts) ==
    LET r == CitiesPost(authHeader, body, ts) IN
    /\ r.status = 201 => nextId.city <= MaxCities
    /\ cities' = r.cities
    /\ nextId' = Bump("city", r.status)
    /\ res' = [op |-> "CitiesPost", status |-> r.status]
    /\ UNCHANGED <<users, categories, filters, regions, listings, issued, now,
                 pending, started, imageVars>>

PutCity(authHeader, id, body) ==
    LET r == CitiesPut(authHeader, id, body) IN
    /\ cities' = r.cities
    /\ res' = [op |-> "CitiesPut", status |-> r.status]
    /\ UNCHANGED <<users, categories, filters, regions, listings, nextId, issued, now,
                 pending, started, imageVars>>

DeleteCity(authHeader, id) ==
    LET r == CitiesDelete(authHeader, id) IN
    /\ cities' = r.cities
    /\ res' = [op |-> "CitiesDelete", status |-> r.status]
    /\ UNCHANGED <<users, categories, filters, regions, listings, nextId, issued, now,
                 pending, started, imageVars>>

PostProduct(authHeader, body, ts) ==
    LET r == ProductsPost(authHeader, body, ts) IN
    /\ r.status = 201 => nextId.listing <= MaxListings
    /\ listings' = r.listings
    /\ nextId' = Bump("listing", r.status)
    /\ res' = [op |-> "ProductsPost", status |-> r.status, error |-> r.error]
    /\ UNCHANGED <<users, categories, filters, regions, cities, issued, now, pending, started, imageVars>>

PutProduct(authHeader, id, body) ==
    LET r == ProductsPut(authHeader, id, body) IN
    /\ listings' = r.listings
    /\ res' = [op |-> "ProductsPut", status |-> r.status, error |-> r.error]
    /\ UNCHANGED <<users, categories, filters, regions, cities, nextId, issued, now,
                 pending, started, imageVars>>

DeleteProduct(authHeader, id) ==
    LET r == ProductsDelete(authHeader, id) IN
    /\ listings' = r.listings
    /\ res' = [op |-> "ProductsDelete", status |-> r.status]
    /\ UNCHANGED <<users, categories, filters, regions, cities, nextId, issued, now,
                 pending, started, imageVars>>

\* a token whose payload or signature was altered: jwt.verify rejects it
Tampered(t) == [t EXCEPT !.sig = FALSE]

\* a header with another scheme, and a Bearer header without a token
Basic(t) == [scheme |-> "Basic", empty |-> FALSE, token |-> t]
BearerEmpty == [scheme |-> "Bearer", empty |-> TRUE, token |-> NoToken]

\* a signed token for a user id that resolves to no stored user
Orphan(t) == [t EXCEPT !.userId = MaxUsers + 1]

\* every Authorization header built from the tokens that were issued
AnyHeaders ==
    {NoHeader, BearerEmpty}
    \cup {Bearer(t) : t \in issued}
    \cup {Bearer(Tampered(t)) : t \in issued}
    \cup {Bearer(Orphan(t)) : t \in issued}
    \cup {Basic(t) : t \in issued}

Secret == <<"s", "e", "c", "r", "e", "t">>

RegisterBody(email, password) ==
    [fields |-> {"email", "password", "firstName", "lastName"},
     email |-> email, password |-> password,
     firstName |-> <<"A">>, lastName |-> <<"B">>, businessName |-> <<>>,
     userType |-> "physical"]

AuthSpecRegisterBodies ==
    {RegisterBody(e, Secret) : e \in {<<"a">>, <<"A", " ">>}}
    \cup {RegisterBody(<<"a">>, <<"s">>)}

AuthSpecLoginBodies ==
    {[fields |-> {"email", "password"}, email |-> e, password |-> pw] :
        e \in {<<" ", "A">>, <<"b">>}, pw \in {Secret, <<"x">>}}

AuthSpecPatchBodies ==
    {[fields |-> {"firstName"}, firstName |-> <<"c">>]}

AuthSpecCategoryPosts ==
    {[fields |-> {"name", "parentId"}, name |-> <<"a">>, slug |-> <<>>, parentId |-> 0]}

AuthSpecCategoryPuts ==
    {[fields |-> {"name"}, name |-> <<"b">>, slug |-> <<>>, parentId |-> 0]}

AuthSpecFilterPosts ==
    {FilterBody({"name", "type", "categoryId"}, <<"a">>, 1, FALSE, 0, TRUE)}

AuthSpecFilterPuts ==
    {FilterBody({"isActive"}, <<>>, 0, FALSE, 0, FALSE)}

AuthSpecRegionPosts ==
    {[fields |-> {"label"}, label |-> <<"a">>, slug |-> <<>>]}

AuthSpecRegionPuts ==
    {[fields |-> {"label"}, label |-> <<"b">>, slug |-> <<>>]}

AuthSpecCityPosts ==
    {[fields |-> {"label", "regionId"}, label |-> <<"a">>, slug |-> <<>>, regionId |-> 1]}

AuthSpecCityPuts ==
    {[fields |-> {"label"}, label |-> <<"b">>, slug |-> <<>>, regionId |-> 0]}

\* a product body with the keys in fields, the others undefined
ProductBody(fields, title, slug, type, rentPeriod) ==
    [fields |-> fields, title |-> title, slug |-> slug, description |-> <<"d">>,
     type |-> type, rentPeriod |-> rentPeriod,
     category |-> [name |-> <<"c">>, slug |-> <<"c">>], categoryId |-> 0,
     attributes |-> <<>>, price |-> Num(1), priceType |-> "fixed",
     images |-> <<>>, thumbnail |-> <<>>,
     location |-> [region |-> <<"r">>, city |-> <<"c">>], status |-> "active"]

AuthSpecProductPosts ==
    {ProductBody({"title", "description", "type", "category", "price", "location"},
                 <<"a">>, <<>>, "sell", "")}

AuthSpecProductPuts ==
    {ProductBody({"title"}, <<"b">>, <<>>, "sell", "")}

AuthNext ==
    \/ \E body \in AuthSpecRegisterBodies : Register(body)
    \/ \E body \in AuthSpecLoginBodies : Login(body)
    \/ \E d \in {TokenTtl - 1, TokenTtl} : Tick(d)
    \/ \E h \in Headers, body \in AuthSpecPatchBodies : PatchMe(h, body)
    \/ \E h \in Headers, body \in AuthSpecCategoryPosts : PostCategory(h, body, <<"0">>)
    \/ \E h \in Headers, body \in AuthSpecFilterPosts : PostFilter(h, body, <<"0">>)
    \/ \E h \in Headers, body \in AuthSpecRegionPosts : PostRegion(h, body, <<"0">>)
    \/ \E h \in Headers, id \in 1..MaxRegions, body \in AuthSpecRegionPuts :
          PutRegion(h, id, body)
    \/ \E h \in Headers, id \in 1..MaxRegions : DeleteRegion(h, id)
    \/ \E h \in Headers, body \in AuthSpecCityPosts : PostCity(h, body, <<"0">>)
    \/ \E h \in Headers, id \in 1..MaxCities, body \in AuthSpecCityPuts :
          PutCity(h, id, body)
    \/ \E h \in Headers, id \in 1..MaxCities : DeleteCity(h, id)
    \/ \E h \in Headers, body \in AuthSpecProductPosts : PostProduct(h, body, <<"0">>)
    \/ \E h \in Headers, id \in 1..MaxListings, body \in AuthSpecProductPuts :
          PutProduct(h, id, body)
    \/ \E h \in Headers, id \in 1..MaxListings : DeleteProduct(h, id)

AuthSpec == Init /\ [][AuthNext]_vars

(***************************************************************************)
(* Authentication: claims C6, C7, C8, C9 (specification AuthSpec).         *)
(***************************************************************************)
\* the header carries a signed token less than 7 days old for a stored user
TokenValid(h) ==
    /\ h.scheme = "Bearer"
    /\ ~h.empty
    /\ h.token.sig
    /\ now - h.token.iat < TokenTtl
    /\ h.token.userId \in DOMAIN users

Refused(r) == r.status = 401

\* C6: a POST, PUT, PATCH or DELETE request other than register and login
\* that carries no bearer token that verifies and resolves to a stored user
\* is answered 401 and leaves users, categories, filters, regions, cities and
\* listings as they were.
C6_MutationsNeedToken ==
    \A h \in AnyHeaders :
        ~TokenValid(h) =>
            /\ \A body \in AuthSpecPatchBodies :
                  LET r == AuthPatchMe(h, body) IN Refused(r) /\ r.users = users
            /\ \A body \in AuthSpecCategoryPosts :
                  LET r == CategoriesPost(h, body, <<"0">>) IN
                  Refused(r) /\ r.categories = categories
            /\ \A id \in 1..MaxCategories, body \in AuthSpecCategoryPuts :
                  LET r == CategoriesPut(h, id, body) IN
                  Refused(r) /\ r.categories = categories
            /\ \A id \in 1..MaxCategories :
                  LET r == CategoriesDelete(h, id) IN Refused(r) /\ r.categories = categories
            /\ \A body \in AuthSpecFilterPosts :
                  LET r == FiltersPost(h, body, <<"0">>) IN Refused(r) /\ r.filters = filters
            /\ \A id \in 1..MaxFilters, body \in AuthSpecFilterPuts :
                  LET r == FiltersPut(h, id, body, <<"0">>) IN
                  Refused(r) /\ r.filters = filters
            /\ \A id \in 1..MaxFilters :
                  LET r == FiltersDelete(h, id) IN Refused(r) /\ r.filters = filters
            /\ \A body \in AuthSpecRegionPosts :
                  LET r == RegionsPost(h, body, <<"0">>) IN Refused(r) /\ r.regions = regions
            /\ \A id \in 1..MaxRegions, body \in AuthSpecRegionPuts :
                  LET r == RegionsPut(h, id, body) IN Refused(r) /\ r.regions = regions
            /\ \A id \in 1..MaxRegions :
                  LET r == RegionsDelete(h, id) IN Refused(r) /\ r.regions = regions
            /\ \A body \in AuthSpecCityPosts :
                  LET r == CitiesPost(h, body, <<"0">>) IN Refused(r) /\ r.cities = cities
            /\ \A id \in 1..MaxCities, body \in AuthSpecCityPuts :
                  LET r == CitiesPut(h, id, body) IN Refused(r) /\ r.cities = cities
            /\ \A id \in 1..MaxCities :
                  LET r == CitiesDelete(h, id) IN Refused(r) /\ r.cities = cities
            /\ \A body \in AuthSpecProductPosts :
                  LET r == ProductsPost(h, body, <<"0">>) IN
                  Refused(r) /\ r.listings = listings
            /\ \A id \in 1..MaxListings, body \in AuthSpecProductPuts :
                  LET r == ProductsPut(h, id, body) IN Refused(r) /\ r.listings = listings
            /\ \A id \in 1..MaxListings :
                  LET r == ProductsDelete(h, id) IN Refused(r) /\ r.listings = listings

\* a delete of a stored listing was refused, and the listing is still there
C6_Witness ==
    /\ res.op = "ProductsDelete"
    /\ res.status = 401
    /\ listings # Empty
    /\ regions # Empty

\* C7: requireAuth accepts a header only if it is a Bearer header whose token
\* has a good signature, was issued less than 7 days ago and names a stored
\* user; every other header is answered 401 by the middleware and the route
\* handler behind it does not run.
C7_TokenAcceptance ==
    \A h \in AnyHeaders :
        LET a == requireAuth(h) IN
        /\ a.ok => (TokenValid(h) /\ a.user = h.token.userId)
        /\ ~TokenValid(h) =>
              /\ ~a.ok
              /\ a.status = 401
              /\ \A body \in AuthSpecPatchBodies :
                    AuthPatchMe(h, body) = Reply(401, a.error) @@ [users |-> users]
              /\ \A body \in AuthSpecRegionPosts :
                    RegionsPost(h, body, <<"0">>) = Reply(401, a.error) @@ [regions |-> regions]

\* a request was refused at the very instant the only issued token expired
C7_Witness ==
    /\ res.op = "AuthPatchMe"
    /\ res.status = 401
    /\ issued # {}
    /\ \A t \in issued : now = t.iat + TokenTtl

\* the body passes the field validation of POST /auth/register
RegisterFieldsValid(body) ==
    /\ trim(body.email) # <<>>
    /\ Len(body.password) >= 6
    /\ trim(body.firstName) # <<>>
    /\ trim(body.lastName) # <<>>

\* C8: while a user with email e is stored, a POST /auth/register that passes
\* the field validation and whose email is e after trimming and lower-casing
\* is answered 409 and creates no user.
C8_DuplicateEmailConflict ==
    \A body \in AuthSpecRegisterBodies :
        (/\ RegisterFieldsValid(body)
         /\ \E u \in DOMAIN users : users[u].email = toLowerCase(trim(body.email)))
        => LET r == AuthRegister(body) IN r.status = 409 /\ r.users = users

\* a second registration was answered 409
C8_Witness ==
    /\ res.op = "AuthRegister"
    /\ res.status = 409
    /\ Cardinality(DOMAIN users) = 1

\* no stored user has the body's email
EmailUnknown(body) ==
    \A u \in DOMAIN users : users[u].email # toLowerCase(trim(body.email))

\* a stored user has the body's email and another password
PasswordWrong(body) ==
    \E u \in DOMAIN users :
        /\ users[u].email = toLowerCase(trim(body.email))
        /\ users[u].password # bcryptHash(body.password)

\* C9: a login for an email that is not registered and a login for a
\* registered email with a wrong password get the same status, 401, and the
\* same body.
C9_LoginFailuresAlike ==
    \A unknown, wrong \in AuthSpecLoginBodies :
        (EmailUnknown(unknown) /\ PasswordWrong(wrong)) =>
            /\ AuthLogin(unknown).status = 401
            /\ AuthLogin(unknown) = AuthLogin(wrong)

\* a login failed while one body has an unknown email and another a wrong password
C9_Witness ==
    /\ res.op = "AuthLogin"
    /\ res.status = 401
    /\ \E unknown, wrong \in AuthSpecLoginBodies : EmailUnknown(unknown) /\ PasswordWrong(wrong)

(***************************************************************************)
(* The concurrent specification: requests are handled at once, and each    *)
(* create or update is two steps, the handler up to its pre-check and then *)
(* its write.  The user of ConcInit has registered and holds a token.      *)
(***************************************************************************)
\* document.save() of a loaded document: the paths whose value differs from
\* the loaded copy are set on the stored document
Overlay(stored, loaded, doc) ==
    [f \in DOMAIN stored |-> IF doc[f] # loaded[f] THEN doc[f] ELSE stored[f]]

\* category.save() of a document loaded earlier
CategoryUpdate(loaded, doc, failure) ==
    LET pre == CategoryPreSave(categories, doc)
        merged == Overlay(categories[doc.id], loaded, pre.doc)
    IN
    IF doc.id \notin DOMAIN categories \/ ~pre.ok \/ ~CategoryIndexAllows(categories, merged)
    THEN Reply(500, failure) @@ [categories |-> categories]
    ELSE Reply(200, "") @@ [categories |-> [categories EXCEPT ![doc.id] = merged]]

\* region.save() of a document loaded earlier
RegionUpdate(loaded, doc, failure) ==
    LET merged == Overlay(regions[doc.id], loaded, doc) IN
    IF doc.id \notin DOMAIN regions \/ ~RegionIndexAllows(regions, merged)
    THEN Reply(500, failure) @@ [regions |-> regions]
    ELSE Reply(200, "") @@ [regions |-> [regions EXCEPT ![doc.id] = merged]]

\* city.save() of a document loaded earlier
CityUpdate(loaded, doc, failure) ==
    LET merged == Overlay(cities[doc.id], loaded, doc) IN
    IF doc.id \notin DOMAIN cities \/ ~CityIndexAllows(cities, merged)
    THEN Reply(500, failure) @@ [cities |-> cities]
    ELSE Reply(200, "") @@ [cities |-> [cities EXCEPT ![doc.id] = merged]]

\* listing.save() of a document loaded earlier
ListingUpdate(loaded, doc, failure) ==
    LET set == [doc EXCEPT !.title = trim(@), !.slug = toLowerCase(trim(@)),
                           !.description = trim(@),
                           !.category = [name |-> trim(@.name),
                                         slug |-> toLowerCase(trim(@.slug))],
                           !.location = [region |-> trim(@.region), city |-> trim(@.city)]]
        pre == ListingPreSave(set)
        merged == Overlay(listings[doc.id], loaded, pre.doc)
        same == [listings |-> listings]
    IN
    IF ListingValidate(set) # "" THEN Reply(400, ListingValidate(set)) @@ same
    ELSE IF doc.id \notin DOMAIN listings \/ ~pre.ok THEN Reply(500, failure) @@ same
    ELSE IF ~ListingIndexAllows(listings, merged)
    THEN Reply(409, "A listing with this slug already exists") @@ same
    ELSE Reply(200, "") @@ [listings |-> [listings EXCEPT ![doc.id] = merged]]

\* the first step of a request: the handler up to its write.  It replies at
\* once, or holds the document it is about to write (a create has drawn its id)
Begin(t, op, p, counter, loaded) ==
    /\ pending[t].kind = "idle"
    /\ started < MaxRequests
    /\ started' = started + 1
    /\ IF p.status # 0
       THEN /\ res' = [op |-> op, status |-> p.status]
            /\ UNCHANGED <<pending, nextId>>
       ELSE /\ pending' = [pending EXCEPT
                             ![t] = [kind |-> op, doc |-> p.doc, loaded |-> loaded]]
            /\ nextId' = IF counter = "" THEN nextId
                         ELSE [nextId EXCEPT ![counter] = @ + 1]
            /\ UNCHANGED res
    /\ UNCHANGED <<users, categories, filters, regions, cities, listings, issued, now,
                 imageVars>>

\* the second step of a request: the reply after its write
End(t, status) ==
    /\ res' = [op |-> pending[t].kind, status |-> status]
    /\ pending' = [pending EXCEPT ![t] = Idle]
    /\ UNCHANGED <<nextId, now, started, imageVars>>

BeginRegister(t, body) ==
    Begin(t, "AuthRegister", AuthRegisterPrepare(body), "user", [id |-> 0])

WriteUser(t) ==
    /\ pending[t].kind = "AuthRegister"
    /\ LET r == UserSave(pending[t].doc) IN
       /\ users' = r.users
       /\ issued' = IF r.status = 201 THEN issued \cup {r.token} ELSE issued
       /\ End(t, r.status)
    /\ UNCHANGED <<categories, filters, regions, cities, listings>>

BeginPostCategory(t, authHeader, body, ts) ==
    Begin(t, "CategoriesPost", CategoriesPostPrepare(authHeader, body, ts), "category",
          [id |-> 0])

BeginPutCategory(t, authHeader, id, body) ==
    Begin(t, "CategoriesPut", CategoriesPutPrepare(authHeader, id, body), "",
          CategoryFindById(id))

WriteCategory(t) ==
    /\ pending[t].kind \in {"CategoriesPost", "CategoriesPut"}
    /\ LET w == pending[t]
           r == IF w.kind = "CategoriesPost"
                THEN Created(CategorySave(w.doc, "Failed to create category"))
                ELSE CategoryUpdate(w.loaded, w.doc, "Failed to update category")
       IN  categories' = r.categories /\ End(t, r.status)
    /\ UNCHANGED <<users, filters, regions, cities, listings, issued>>

BeginPostRegion(t, authHeader, body, ts) ==
    Begin(t, "RegionsPost", RegionsPostPrepare(authHeader, body, ts), "region", [id |-> 0])

BeginPutRegion(t, authHeader, id, body) ==
    Begin(t, "RegionsPut", RegionsPutPrepare(authHeader, id, body), "",
          IF id \in DOMAIN regions THEN regions[id] ELSE [id |-> 0])

WriteRegion(t) ==
    /\ pending[t].kind \in {"RegionsPost", "RegionsPut"}
    /\ LET w == pending[t]
           r == IF w.kind = "RegionsPost"
                THEN Created(RegionSave(w.doc, "Failed to create region"))
                ELSE RegionUpdate(w.loaded, w.doc, "Failed to update region")
       IN  regions' = r.regions /\ End(t, r.status)
    /\ UNCHANGED <<users, categories, filters, cities, listings, issued>>

BeginPostCity(t, authHeader, body, ts) ==
    Begin(t, "CitiesPost", CitiesPostPrepare(authHeader, body, ts), "city", [id |-> 0])

BeginPutCity(t, authHeader, id, body) ==
    Begin(t, "CitiesPut", CitiesPutPrepare(authHeader, id, body), "",
          IF id \in DOMAIN cities THEN cities[id] ELSE [id |-> 0])

WriteCity(t) ==
    /\ pending[t].kind \in {"CitiesPost", "CitiesPut"}
    /\ LET w == pending[t]
           r == IF w.kind = "CitiesPost"
                THEN Created(CitySave(w.doc, "Failed to create city"))
                ELSE CityUpdate(w.loaded, w.doc, "Failed to update city")
       IN  cities' = r.cities /\ End(t, r.status)
    /\ UNCHANGED <<users, categories, filters, regions, listings, issued>>

BeginPostProduct(t, authHeader, body, ts) ==
    Begin(t, "ProductsPost", ProductsPostPrepare(authHeader, body, ts), "listing", [id |-> 0])

BeginPutProduct(t, authHeader, id, body) ==
    Begin(t, "ProductsPut", ProductsPutPrepare(authHeader, id, body), "",
          IF id \in DOMAIN listings THEN listings[id] ELSE [id |-> 0])

WriteProduct(t) ==
    /\ pending[t].kind \in {"ProductsPost", "ProductsPut"}
    /\ LET w == pending[t]
           r == IF w.kind = "ProductsPost"
                THEN Created(ListingSave(w.doc, "Failed to create product"))
                ELSE ListingUpdate(w.loaded, w.doc, "Failed to update product")
       IN  listings' = r.listings /\ End(t, r.status)
    /\ UNCHANGED <<users, categories, filters, regions, cities, issued>>

BeginPostFilter(t, authHeader, body, ts) ==
    Begin(t, "FiltersPost", FiltersPostPrepare(authHeader, body, ts), "filter", [id |-> 0])

WriteFilter(t) ==
    /\ pending[t].kind = "FiltersPost"
    /\ LET r == Created(FilterSave(pending[t].doc, "Failed to create filter"))
       IN  filters' = r.filters /\ End(t, r.status)
    /\ UNCHANGED <<users, categories, regions, cities, listings, issued>>

\* the state after the registration of SpecRegisterBodies at time 0
ConcInit ==
    /\ users = (1 :> [id |-> 1, email |-> <<"a">>, password |-> bcryptHash(Secret),
                      firstName |-> <<"A">>, lastName |-> <<"B">>, businessName |-> <<>>,
                      role |-> "customer", phone |-> <<>>, userType |-> "physical"])
    /\ categories = Empty
    /\ filters = Empty
    /\ regions = Empty
    /\ cities = Empty
    /\ listings = Empty
    /\ nextId = [user |-> 2, category |-> 1, filter |-> 1, region |-> 1, city |-> 1,
                 listing |-> 1]
    /\ issued = {jwtSign(1, 0)}
    /\ now = 0
    /\ res = [op |-> "AuthRegister", status |-> 201]
    /\ pending = [t \in Threads |-> Idle]
    /\ started = 0
    /\ objects = Empty
    /\ job = [pc |-> "idle"]
    /\ presigned = [calls |-> 0, slots |-> <<>>]

ConcRegisterBodies == {RegisterBody(e, Secret) : e \in {<<"b">>, <<"B">>}}

ConcCategoryPosts ==
    {[fields |-> {"name", "parentId"}, name |-> n, slug |-> <<>>, parentId |-> 0] :
        n \in {<<"a">>, <<"b">>}}
    \cup {[fields |-> {"name", "parentId"}, name |-> <<"a">>, slug |-> <<>>, parentId |-> 1]}

ConcCategoryPuts ==
    {[fields |-> {"slug"}, name |-> <<>>, slug |-> <<"a">>, parentId |-> 0],
     [fields |-> {"parentId"}, name |-> <<>>, slug |-> <<>>, parentId |-> 0]}

ConcRegionPosts ==
    {[fields |-> {"label"}, label |-> l, slug |-> <<>>] : l \in {<<"a">>, <<"b">>}}

ConcRegionPuts == {[fields |-> {"slug"}, label |-> <<>>, slug |-> <<"a">>]}

ConcCityPosts ==
    {[fields |-> {"label", "regionId"}, label |-> l, slug |-> <<>>, regionId |-> 1] :
        l \in {<<"a">>, <<"b">>}}

ConcCityPuts == {[fields |-> {"slug"}, label |-> <<>>, slug |-> <<"a">>, regionId |-> 0]}

ConcProductPosts ==
    {ProductBody({"title", "description", "type", "category", "price", "location"},
                 ti, <<>>, "sell", "") : ti \in {<<"a">>, <<"b">>}}

ConcProductPuts == {ProductBody({"slug"}, <<>>, <<"a">>, "sell", "")}

ConcFilterPosts ==
    {FilterBody({"name", "type", "categoryId"}, <<"a">>, 1, FALSE, 0, TRUE)}

\* the ids an update can name
ConcIds == 1..MaxThreads

ConcNext ==
    \E t \in Threads :
        \/ \E body \in ConcRegisterBodies : BeginRegister(t, body)
        \/ WriteUser(t)
        \/ \E h \in AuthedHeaders, body \in ConcCategoryPosts :
              BeginPostCategory(t, h, body, <<"0">>)
        \/ \E h \in AuthedHeaders, id \in ConcIds, body \in ConcCategoryPuts :
              BeginPutCategory(t, h, id, body)
        \/ WriteCategory(t)
        \/ \E h \in AuthedHeaders, body \in ConcRegionPosts : BeginPostRegion(t, h, body, <<"0">>)
        \/ \E h \in AuthedHeaders, id \in ConcIds, body \in ConcRegionPuts :
              BeginPutRegion(t, h, id, body)
        \/ WriteRegion(t)
        \/ \E h \in AuthedHeaders, body \in ConcCityPosts : BeginPostCity(t, h, body, <<"0">>)
        \/ \E h \in AuthedHeaders, id \in ConcIds, body \in ConcCityPuts :
              BeginPutCity(t, h, id, body)
        \/ WriteCity(t)
        \/ \E h \in AuthedHeaders, body \in ConcProductPosts :
              BeginPostProduct(t, h, body, <<"0">>)
        \/ \E h \in AuthedHeaders, id \in ConcIds, body \in ConcProductPuts :
              BeginPutProduct(t, h, id, body)
        \/ WriteProduct(t)
        \/ \E h \in AuthedHeaders, body \in ConcFilterPosts : BeginPostFilter(t, h, body, <<"0">>)
        \/ WriteFilter(t)

ConcSpec == ConcInit /\ [][ConcNext]_vars

(***************************************************************************)
(* Uniqueness under concurrency: claim C10 (specification ConcSpec).       *)
(***************************************************************************)
\* no two documents of coll have the same key
Unique(coll, Key(_)) ==
    \A x, y \in DOMAIN coll : x # y => Key(coll[x]) # Key(coll[y])

UserKey(u) == toLowerCase(trim(u.email))
SlugKey(d) == d.slug
CityKey(c) == <<c.regionId, c.slug>>
CategoryKey(c) == <<c.parentId, c.slug>>

\* C10: whatever the interleaving of the pre-checks and the writes of
\* concurrent create and update requests, no two users have one normalized
\* email, no two listings one slug, no two regions one slug, no two cities one
\* slug in one region, and no two categories one slug under one parent.
C10_NoDuplicates ==
    /\ Unique(users, UserKey)
    /\ Unique(listings, SlugKey)
    /\ Unique(regions, SlugKey)
    /\ Unique(cities, CityKey)
    /\ Unique(categories, CategoryKey)

\* two creates of one category passed the pre-check together, and the write of
\* the second was refused by the unique index
C10_Witness ==
    /\ res.op = "CategoriesPost"
    /\ res.status = 500
    /\ \E c \in DOMAIN categories : categories[c].parentId = 0

\* the kinds of request that create a document
CreateKinds == {"AuthRegister", "CategoriesPost", "RegionsPost", "CitiesPost", "ProductsPost",
                "FiltersPost"}

\* the unique key of the document a pending create is about to write is
\* already the key of a stored document
KeyTaken(w) ==
    CASE w.kind = "AuthRegister" -> ~UserIndexAllows(users, w.doc)
      [] w.kind = "CategoriesPost" ->
            \E c \in DOMAIN categories : CategoryKey(categories[c]) = CategoryKey(w.doc)
      [] w.kind = "RegionsPost" -> \E r \in DOMAIN regions : regions[r].slug = w.doc.slug
      [] w.kind = "CitiesPost" -> \E c \in DOMAIN cities : CityKey(cities[c]) = CityKey(w.doc)
      [] w.kind = "ProductsPost" -> \E l \in DOMAIN listings : listings[l].slug = w.doc.slug
      [] w.kind = "FiltersPost" ->
            \E f \in DOMAIN filters : /\ filters[f].slug = w.doc.slug
                                      /\ filters[f].categoryId = w.doc.categoryId

\* C11: of the concurrent creates that passed the pre-check with one unique
\* key, the write of the first succeeds (201) and every later one is answered
\* 409 Conflict and writes nothing.
C11_RaceLoserGetsConflict ==
    [][\A t \in Threads :
          (pending[t].kind \in CreateKinds /\ pending'[t].kind = "idle") =>
              IF KeyTaken(pending[t])
              THEN /\ res'.status = 409
                   /\ UNCHANGED <<users, categories, filters, regions, cities, listings>>
              ELSE res'.status = 201]_vars

(***************************************************************************)
(* The listing routes with bodies that vary the type, the rent period, the *)
(* price, the category reference and the attributes.                       *)
(***************************************************************************)
\* the keys every accepted product body carries
ListingRequired == {"title", "description", "category", "location"}

\* a product body with the keys in fields, the others undefined
ListingBody(fields, title, type, rentPeriod, price, priceType, categoryId, attributes) ==
    [fields |-> fields, title |-> title, slug |-> <<>>, description |-> <<"d">>,
     type |-> type, rentPeriod |-> rentPeriod,
     category |-> [name |-> <<"c">>, slug |-> <<"c">>], categoryId |-> categoryId,
     attributes |-> attributes, price |-> price, priceType |-> priceType,
     images |-> <<>>, thumbnail |-> <<>>,
     location |-> [region |-> <<"r">>, city |-> <<"c">>], status |-> "active"]

\* one attribute of a product body
Attribute(filterId) == [filterId |-> filterId, hasValue |-> TRUE, value |-> <<"x">>]

ProductSpecProductPosts ==
    {ListingBody(ListingRequired \cup {"type", "price"},
                 <<"a">>, "sell", "", Num(1), "", 0, <<>>),
     ListingBody(ListingRequired \cup {"type", "rentPeriod", "price"},
                 <<"a">>, "lease", "day", Num(1), "", 0, <<>>),
     ListingBody(ListingRequired \cup {"type", "rentPeriod", "price"},
                 <<"a">>, "rent", "day", Num(1), "", 0, <<>>),
     ListingBody(ListingRequired \cup {"type", "price"},
                 <<"b">>, "rent", "", Num(1), "", 0, <<>>),
     ListingBody(ListingRequired \cup {"priceType"},
                 <<"a">>, "", "", NaN, "negotiable", 0, <<>>),
     ListingBody(ListingRequired \cup {"price", "priceType"},
                 <<"a">>, "", "", Num(0 - 1), "negotiable", 0, <<>>),
     ListingBody(ListingRequired \cup {"price"},
                 <<"b">>, "", "", Num(0 - 1), "", 0, <<>>),
     ListingBody(ListingRequired \cup {"price", "categoryId"},
                 <<"b">>, "", "", Num(1), "", 1, <<>>),
     ListingBody(ListingRequired \cup {"price", "attributes"},
                 <<"a">>, "", "", Num(1), "", 0, <<Attribute(1)>>)}

ProductSpecProductPuts ==
    {ListingBody({"type"}, <<>>, "rent", "", NaN, "", 0, <<>>),
     ListingBody({"type", "rentPeriod"}, <<>>, "rent", "week", NaN, "", 0, <<>>),
     ListingBody({"type"}, <<>>, "sell", "", NaN, "", 0, <<>>),
     ListingBody({"rentPeriod"}, <<>>, "", "", NaN, "", 0, <<>>),
     ListingBody({"rentPeriod"}, <<>>, "", "month", NaN, "", 0, <<>>)}

ProductSpecCategoryPosts ==
    {[fields |-> {"name"}, name |-> <<"a">>, slug |-> <<>>, parentId |-> 0]}

ProductSpecFilterPosts ==
    {FilterBody({"name", "type", "categoryId"}, <<"a">>, 1, FALSE, 0, TRUE)}

ProductNext ==
    \/ \E body \in SpecRegisterBodies : Register(body)
    \/ \E h \in AuthedHeaders, body \in ProductSpecCategoryPosts : PostCategory(h, body, <<"0">>)
    \/ \E h \in AuthedHeaders, body \in ProductSpecFilterPosts : PostFilter(h, body, <<"0">>)
    \/ \E h \in AuthedHeaders, body \in ProductSpecProductPosts : PostProduct(h, body, <<"0">>)
    \/ \E h \in AuthedHeaders, id \in 1..MaxListings, body \in ProductSpecProductPuts :
          PutProduct(h, id, body)
    \/ \E h \in AuthedHeaders, id \in 1..MaxListings : DeleteProduct(h, id)

ProductSpec == Init /\ [][ProductNext]_vars

(***************************************************************************)
(* Claims C12 to C15, under ProductSpec.                                   *)
(***************************************************************************)
\* the product bodies that differ in type and rent period and are valid in
\* every other key
TypeAndPeriodBodies ==
    {ListingBody(ListingRequired \cup {"price"} \cup keys, title, type, rentPeriod,
                 Num(1), "", 0, <<>>) :
        keys \in SUBSET {"type", "rentPeriod"}, title \in {<<"a">>, <<"b">>},
        type \in {"rent", "sell", "lease", ""},
        rentPeriod \in {"", "day", "year"}}

\* the request asks for a rent listing and names no rent period
RentWithoutPeriod(body) ==
    /\ Has(body, "type") /\ body.type = "rent"
    /\ ~Has(body, "rentPeriod") \/ body.rentPeriod = ""

\* the request asks for a listing that is not for rent
NotRent(body) == ~Has(body, "type") \/ body.type # "rent"

\* no stored listing has the slug the body's title gives
SlugFree(body) == \A l \in DOMAIN listings : listings[l].slug # body.title

\* the store after a create that added exactly the document doc
AddedOnly(stored, doc) ==
    /\ DOMAIN stored = DOMAIN listings \cup {nextId.listing}
    /\ \A l \in DOMAIN listings : stored[l] = listings[l]
    /\ doc = stored[nextId.listing]

\* C12: POST /products with type rent and no rentPeriod stores nothing and,
\* when the slug is free, is answered 400 'Rent period is required for rent
\* listings'; with any other type (or none) and a free slug it stores a sell
\* listing without a rentPeriod, whatever rentPeriod the body supplied.
C12_RentNeedsPeriod ==
    \A h \in AuthedHeaders, body \in TypeAndPeriodBodies :
        LET r == ProductsPost(h, body, <<"0">>) IN
        /\ RentWithoutPeriod(body) =>
              /\ r.status # 201 /\ r.listings = listings
              /\ SlugFree(body) =>
                    /\ r.status = 400
                    /\ r.error = "Rent period is required for rent listings"
        /\ (NotRent(body) /\ SlugFree(body)) =>
              /\ r.status = 201
              /\ nextId.listing \notin DOMAIN listings
              /\ AddedOnly(r.listings, r.listings[nextId.listing])
              /\ r.listings[nextId.listing].type = "sell"
              /\ r.listings[nextId.listing].rentPeriod = ""

\* a rent request without a rent period was refused while a listing created
\* as not for rent is stored without one
C12_Witness ==
    /\ res.op = "ProductsPost" /\ res.status = 400
    /\ res.error = "Rent period is required for rent listings"
    /\ \E l \in DOMAIN listings : listings[l].type = "sell" /\ listings[l].rentPeriod = ""

\* the update bodies that differ in type and rent period
TypeAndPeriodUpdates ==
    {ListingBody(keys, <<>>, type, rentPeriod, NaN, "", 0, <<>>) :
        keys \in SUBSET {"type", "rentPeriod"}, type \in {"rent", "sell", "lease"},
        rentPeriod \in {"", "day", "year"}}

\* a listing has a rent period, one of the enum, exactly when it is for rent
RentPeriodIffRent(l) ==
    IF l.type = "rent" THEN l.rentPeriod \in rentPeriodEnum ELSE l.rentPeriod = ""

\* the update asks for a listing that is for rent and has no rent period
WouldLackPeriod(listing, body) ==
    LET type == IF ~Has(body, "type") THEN listing.type
                ELSE IF body.type = "rent" THEN "rent" ELSE "sell"
    IN  /\ type = "rent"
        /\ IF Has(body, "rentPeriod") THEN body.rentPeriod = "" ELSE listing.rentPeriod = ""

\* C13: every stored listing has a rentPeriod exactly when its type is rent;
\* an update that would leave a rent listing without a rentPeriod is refused
\* with 400 and the stored listings are unchanged; an update that sets a type
\* other than rent stores the listing as sell without a rentPeriod.
C13_RentPeriodIffRent ==
    /\ \A l \in DOMAIN listings : RentPeriodIffRent(listings[l])
    /\ \A h \in AuthedHeaders, id \in DOMAIN listings, body \in TypeAndPeriodUpdates :
          LET r == ProductsPut(h, id, body) IN
          /\ WouldLackPeriod(listings[id], body) =>
                r.status = 400 /\ r.listings = listings
          /\ (Has(body, "type") /\ body.type # "rent") =>
                /\ r.status = 200
                /\ r.listings = [listings EXCEPT ![id] = [@ EXCEPT !.type = "sell",
                                                                    !.rentPeriod = ""]]
          /\ r.status = 200 => RentPeriodIffRent(r.listings[id])
          /\ r.status # 200 => r.listings = listings

\* an update of a stored listing was refused for want of a rent period
C13_Witness ==
    /\ res.op = "ProductsPut" /\ res.status = 400
    /\ res.error = "Path rentPeriod is required."
    /\ listings # Empty

\* the product bodies that differ in price and price type and are valid in
\* every other key
PriceBodies ==
    {ListingBody(ListingRequired \cup keys, title, "", "", price, priceType, 0, <<>>) :
        keys \in SUBSET {"price", "priceType"}, title \in {<<"a">>, <<"b">>},
        price \in {NaN, Num(0 - 1), Num(0), Num(2)},
        priceType \in {"fixed", "negotiable"}}

\* Number(body.price) is NaN or negative
BadPrice(body) == ~Has(body, "price") \/ body.price.nan \/ body.price.v < 0

\* body.priceType === 'negotiable'
Negotiable(body) == Has(body, "priceType") /\ body.priceType = "negotiable"

\* C14: POST /products with priceType fixed or absent and a missing, NaN or
\* negative price stores nothing and, when the slug is free, is answered 400
\* 'Valid price is required'; with priceType negotiable and such a price it
\* stores the listing with price 0.
C14_PriceRules ==
    \A h \in AuthedHeaders, body \in PriceBodies :
        LET r == ProductsPost(h, body, <<"0">>) IN
        /\ (~Negotiable(body) /\ BadPrice(body)) =>
              /\ r.status # 201 /\ r.listings = listings
              /\ SlugFree(body) =>
                    r.status = 400 /\ r.error = "Valid price is required"
        /\ (Negotiable(body) /\ BadPrice(body) /\ SlugFree(body)) =>
              /\ r.status = 201
              /\ nextId.listing \notin DOMAIN listings
              /\ AddedOnly(r.listings, r.listings[nextId.listing])
              /\ r.listings[nextId.listing].price = 0
              /\ r.listings[nextId.listing].priceType = "negotiable"

\* a fixed-price request with a negative price was refused while a negotiable
\* listing is stored with price 0
C14_Witness ==
    /\ res.op = "ProductsPost" /\ res.status = 400
    /\ res.error = "Valid price is required"
    /\ \E l \in DOMAIN listings : listings[l].priceType = "negotiable" /\ listings[l].price = 0

\* the product bodies that differ in the category and the filters they refer
\* to and are valid in every other key
ReferenceBodies ==
    {ListingBody(ListingRequired \cup {"price"} \cup keys, title, "", "", Num(1), "",
                 categoryId, attributes) :
        keys \in SUBSET {"categoryId", "attributes"}, title \in {<<"a">>, <<"b">>},
        categoryId \in 0..MaxCategories + 1,
        attributes \in {<<>>} \cup {<<Attribute(f)>> : f \in 1..MaxFilters + 1}
                             \cup {<<Attribute(1), Attribute(MaxFilters + 1)>>}}

\* body.categoryId names no stored category
CategoryUnresolved(body) ==
    Has(body, "categoryId") /\ body.categoryId # 0 /\ body.categoryId \notin DOMAIN categories

\* some attribute of the body names no stored filter
FilterUnresolved(body) ==
    /\ Has(body, "attributes")
    /\ \E i \in 1..Len(body.attributes) : body.attributes[i].filterId \notin DOMAIN filters

\* C15: POST /products whose categoryId names no stored category, or whose
\* attributes contain a filterId that names no stored filter, is answered 400
\* and stores nothing.
C15_ReferencesMustResolve ==
    \A h \in AuthedHeaders, body \in ReferenceBodies :
        LET r == ProductsPost(h, body, <<"0">>) IN
        (CategoryUnresolved(body) \/ FilterUnresolved(body)) =>
            /\ r.status # 201 /\ r.listings = listings
            /\ SlugFree(body) => r.status = 400

(***************************************************************************)
(* Product images in the object store (services/r2.js).  Keys and URLs are *)
(* strings built as the code builds them; an object is the pixels of the   *)
(* upload it came from with the size it was resized to.                    *)
(***************************************************************************)
THUMBNAIL_SIZE == 400
IMAGE_SIZE == 800
MAX_IMAGES == 20

\* the longest tempKeys list of a call
MaxImages == 2
\* the largest startIndex of an append
MaxStart == 1
\* the number of calls of getPresignedUploadUrls
MaxCalls == 1
\* the number of different pictures a client uploads
MaxPixels == 2

Min(a, b) == IF a < b THEN a ELSE b
Max(a, b) == IF a > b THEN a ELSE b

\* config.r2.publicUrl without its trailing slash
PublicUrl == "https://cdn.example"

\* `${publicUrl}/${key}`
UrlFor(key) == PublicUrl \o "/" \o key

\* uuidv4(): a value no other call and no other slot of this call gets
Uuid(call, i) == ToString(call) \o "-" \o ToString(i)

\* `temp/products/${userId}/${uuidv4()}.jpg`
TempKeyFor(userId, uuid) == "temp/products/" \o ToString(userId) \o "/" \o uuid \o ".jpg"

\* `${prefix}/thumbnail.jpg` with prefix `products/${productId}`
ThumbnailKey(productId) == "products/" \o ToString(productId) \o "/thumbnail.jpg"

\* `${prefix}/image-${idx}.jpg`
ImageKey(productId, idx) ==
    "products/" \o ToString(productId) \o "/image-" \o ToString(idx) \o ".jpg"

\* a count argument: undefined, NaN or an integer
NoCount == [defined |-> FALSE, nan |-> FALSE, v |-> 0]
NaNCount == [defined |-> TRUE, nan |-> TRUE, v |-> 0]
Count(v) == [defined |-> TRUE, nan |-> FALSE, v |-> v]

\* the count without the upper limit
SafeCountUncapped(count) ==
    IF ~count.defined \/ count.nan \/ count.v = 0 THEN 1 ELSE Max(1, count.v)

\* Math.min(Math.max(1, Number(count) || 1), MAX_IMAGES)
SafeCount(count) ==
    LET n == IF ~count.defined \/ count.nan \/ count.v = 0 THEN 1 ELSE count.v
    IN  Min(Max(1, n), MAX_IMAGES)

\* getPresignedUploadUrls(userId, count) as call number call of the process
getPresignedUploadUrls(userId, count, call) ==
    [i \in 1..SafeCount(count) |->
        LET key == TempKeyFor(userId, Uuid(call, i))
        IN  [key |-> key, uploadUrl |-> "put:" \o key]]

\* an uploaded picture, not resized
Raw(pixels) == [pixels |-> pixels, width |-> 0, height |-> 0]

\* resizeTo(input, size): cover-cropped to size.width x size.height
resizeTo(input, size) == [pixels |-> input.pixels, width |-> size.width, height |-> size.height]

\* PutObjectCommand
PutObject(store, key, body) ==
    [k \in DOMAIN store \cup {key} |-> IF k = key THEN body ELSE store[k]]

\* DeleteObjectCommand
DeleteObject(store, key) == [k \in DOMAIN store \ {key} |-> store[k]]

NoJob == [pc |-> "idle"]

\* a call of processProductImages or processProductImagesAppend entered
StartJob(fn, productId, tempKeys, startIndex, imageUrls) ==
    [pc |-> IF tempKeys = <<>> THEN "done" ELSE "fetch", fn |-> fn, productId |-> productId,
     tempKeys |-> tempKeys, startIndex |-> startIndex, i |-> 1, rawBuffer |-> Raw(0),
     before |-> objects,
     thumbnailUrl |-> IF fn = "processProductImages" /\ tempKeys # <<>>
                      THEN UrlFor(ThumbnailKey(productId)) ELSE "",
     imageUrls |-> imageUrls]

\* the index counted from 1 whatever the start index
AppendIndexFromOne(startIndex, i) == i

\* idx = startIndex + i + 1 with i from 0: here the i-th key is counted from 1
AppendIndex(startIndex, i) == startIndex + i

\* processProductImages(productId, tempKeys) up to its loop
CallProcessProductImages(productId, tempKeys) ==
    /\ job.pc = "idle"
    /\ job' = StartJob("processProductImages", productId, tempKeys, 0,
                       [i \in 1..Len(tempKeys) |-> UrlFor(ImageKey(productId, i))])
    /\ UNCHANGED <<users, categories, filters, regions, cities, listings, nextId, issued, now,
                   res, pending, started, objects, presigned>>

\* processProductImagesAppend(productId, tempKeys, startIndex) up to its loop
CallProcessProductImagesAppend(productId, tempKeys, startIndex) ==
    /\ job.pc = "idle"
    /\ job' = StartJob("processProductImagesAppend", productId, tempKeys, startIndex, <<>>)
    /\ UNCHANGED <<users, categories, filters, regions, cities, listings, nextId, issued, now,
                   res, pending, started, objects, presigned>>

\* the fetch that also deletes the temp object
GetObjectAndDelete ==
    /\ job.pc = "fetch"
    /\ LET k == job.tempKeys[job.i] IN
       /\ k \in DOMAIN objects
       /\ job' = [job EXCEPT !.pc = IF job.fn = "processProductImages" /\ job.i = 1
                                    THEN "thumbnail" ELSE "image",
                             !.rawBuffer = objects[k]]
       /\ objects' = DeleteObject(objects, k)
    /\ UNCHANGED <<users, categories, filters, regions, cities, listings, nextId, issued, now,
                   res, pending, started, presigned>>

\* getObjectBuffer(tempKey): it throws when the store has no such key
GetObject ==
    /\ job.pc = "fetch"
    /\ LET k == job.tempKeys[job.i] IN
       job' = IF k \in DOMAIN objects
              THEN [job EXCEPT !.pc = IF job.fn = "processProductImages" /\ job.i = 1
                                      THEN "thumbnail" ELSE "image",
                               !.rawBuffer = objects[k]]
              ELSE [job EXCEPT !.pc = "failed"]
    /\ UNCHANGED <<users, categories, filters, regions, cities, listings, nextId, issued, now,
                   res, pending, started, objects, presigned>>

\* the first image without its thumbnail
PutThumbnailSkipped ==
    /\ job.pc = "thumbnail"
    /\ job' = [job EXCEPT !.pc = "image"]
    /\ UNCHANGED <<users, categories, filters, regions, cities, listings, nextId, issued, now,
                   res, pending, started, objects, presigned>>

\* the first image: resizeTo(rawBuffer, 400x400) and putObjectBuffer(thumbnailKey)
PutThumbnail ==
    /\ job.pc = "thumbnail"
    /\ objects' = PutObject(objects, ThumbnailKey(job.productId),
                            resizeTo(job.rawBuffer, [width |-> THUMBNAIL_SIZE,
                                                     height |-> THUMBNAIL_SIZE]))
    /\ job' = [job EXCEPT !.pc = "image"]
    /\ UNCHANGED <<users, categories, filters, regions, cities, listings, nextId, issued, now,
                   res, pending, started, presigned>>

\* resizeTo(rawBuffer, 800x800) and putObjectBuffer(imageKey)
PutImage ==
    /\ job.pc = "image"
    /\ objects' = PutObject(objects,
                            ImageKey(job.productId, AppendIndex(job.startIndex, job.i)),
                            resizeTo(job.rawBuffer, [width |-> IMAGE_SIZE,
                                                     height |-> IMAGE_SIZE]))
    /\ job' = [job EXCEPT !.pc = "delete"]
    /\ UNCHANGED <<users, categories, filters, regions, cities, listings, nextId, issued, now,
                   res, pending, started, presigned>>

\* deleteObject(tempKey), then the next key or the return
DeleteTemp ==
    /\ job.pc = "delete"
    /\ objects' = DeleteObject(objects, job.tempKeys[job.i])
    /\ job' = [job EXCEPT
                 !.pc = IF job.i = Len(job.tempKeys) THEN "done" ELSE "fetch",
                 !.i = IF job.i = Len(job.tempKeys) THEN @ ELSE @ + 1,
                 !.imageUrls = IF job.fn = "processProductImagesAppend"
                               THEN Append(@, UrlFor(ImageKey(job.productId,
                                                              AppendIndex(job.startIndex,
                                                                          job.i))))
                               ELSE @]
    /\ UNCHANGED <<users, categories, filters, regions, cities, listings, nextId, issued, now,
                   res, pending, started, presigned>>

\* a request to the object store, or a resize, throws: the call ends with the
\* error and nothing is undone
StepFails ==
    /\ job.pc \in {"fetch", "thumbnail", "image", "delete"}
    /\ job' = [job EXCEPT !.pc = "failed"]
    /\ UNCHANGED <<users, categories, filters, regions, cities, listings, nextId, issued, now,
                   res, pending, started, objects, presigned>>

\* the caller has the result or the error
Return ==
    /\ job.pc \in {"done", "failed"}
    /\ job' = NoJob
    /\ UNCHANGED <<users, categories, filters, regions, cities, listings, nextId, issued, now,
                   res, pending, started, objects, presigned>>

\* a call of getPresignedUploadUrls
Presign(userId, count) ==
    /\ presigned.calls < MaxCalls
    /\ presigned' = [calls |-> presigned.calls + 1, userId |-> userId, count |-> count,
                     slots |-> getPresignedUploadUrls(userId, count, presigned.calls + 1)]
    /\ UNCHANGED <<users, categories, filters, regions, cities, listings, nextId, issued, now,
                   res, pending, started, objects, job>>

\* the keys of the slots a client uploads to and names in tempKeys
UsedKeys ==
    {presigned.slots[i].key : i \in 1..Min(MaxImages, Len(presigned.slots))}

\* the client PUTs a picture to a presigned URL; the uploads of a listing are
\* over when its images are processed
Upload(key, pixels) ==
    /\ job.pc = "idle"
    /\ objects' = PutObject(objects, key, Raw(pixels))
    /\ UNCHANGED <<users, categories, filters, regions, cities, listings, nextId, issued, now,
                   res, pending, started, job, presigned>>

\* the count arguments of getPresignedUploadUrls
Counts ==
    {NoCount, NaNCount} \cup
    {Count(v) : v \in {0 - 1, 0, 1, MaxImages, MAX_IMAGES - 1, MAX_IMAGES, MAX_IMAGES + 1}}

\* the lists of distinct keys of at most MaxImages slots
TempKeyLists ==
    {keys \in UNION {[1..n -> UsedKeys] : n \in 0..MaxImages} :
        \A i, j \in DOMAIN keys : keys[i] = keys[j] => i = j}

ImageNext ==
    \/ \E u \in 1..MaxUsers, count \in Counts : Presign(u, count)
    \/ \E key \in UsedKeys, pixels \in 1..MaxPixels : Upload(key, pixels)
    \/ \E p \in 1..MaxListings, keys \in TempKeyLists : CallProcessProductImages(p, keys)
    \/ \E p \in 1..MaxListings, keys \in TempKeyLists, startIndex \in 0..MaxStart :
          CallProcessProductImagesAppend(p, keys, startIndex)
    \/ GetObject
    \/ PutThumbnail
    \/ PutImage
    \/ DeleteTemp
    \/ StepFails
    \/ Return

ImageSpec == Init /\ [][ImageNext]_vars

(***************************************************************************)
(* Claims C16 to C19, under ImageSpec.                                     *)
(***************************************************************************)
\* the 400x400 and the 800x800 picture derived from an upload
ThumbnailOf(source) == [pixels |-> source.pixels, width |-> 400, height |-> 400]
ImageOf(source) == [pixels |-> source.pixels, width |-> 800, height |-> 800]

\* the names of the outputs, spelled out
ThumbnailName(productId) == "products/" \o ToString(productId) \o "/thumbnail.jpg"
ImageName(productId, n) ==
    "products/" \o ToString(productId) \o "/image-" \o ToString(n) \o ".jpg"

\* the store holds content under key
Holds(key, content) == key \in DOMAIN objects /\ objects[key] = content

\* C16: when processProductImages(productId, [k1..kn]), n >= 1, has completed,
\* the store holds thumbnail.jpg derived from k1 and image-i.jpg derived from
\* ki for every i, none of k1..kn is in the store, and the result names
\* image-1 .. image-n in input order and the thumbnail.
C16_ImagesProcessed ==
    (job.pc = "done" /\ job.fn = "processProductImages" /\ job.tempKeys # <<>>) =>
        LET n == Len(job.tempKeys)
            source(i) == job.before[job.tempKeys[i]]
        IN  /\ Holds(ThumbnailName(job.productId), ThumbnailOf(source(1)))
            /\ \A i \in 1..n :
                  /\ Holds(ImageName(job.productId, i), ImageOf(source(i)))
                  /\ job.tempKeys[i] \notin DOMAIN objects
            /\ job.imageUrls =
                  [i \in 1..n |-> PublicUrl \o "/" \o ImageName(job.productId, i)]
            /\ job.thumbnailUrl = PublicUrl \o "/" \o ThumbnailName(job.productId)

\* a call with two different pictures has completed
C16_Witness ==
    /\ job.pc = "done" /\ job.fn = "processProductImages"
    /\ Len(job.tempKeys) = 2
    /\ job.before[job.tempKeys[1]] # job.before[job.tempKeys[2]]

\* the outputs derived from the j-th temp key are in the store
Written(j) ==
    /\ Holds(ImageName(job.productId, j), ImageOf(job.before[job.tempKeys[j]]))
    /\ j = 1 => Holds(ThumbnailName(job.productId), ThumbnailOf(job.before[job.tempKeys[1]]))

\* the object under key is as it was when the call was made
Untouched(key) ==
    /\ key \in DOMAIN objects <=> key \in DOMAIN job.before
    /\ key \in DOMAIN objects => objects[key] = job.before[key]

\* the keys before the current one are processed and deleted, the keys after
\* it are as they were
Settled ==
    (job.pc # "idle" /\ job.fn = "processProductImages") =>
        \A j \in 1..Len(job.tempKeys) :
            /\ (j < job.i \/ job.pc = "done") =>
                  Written(j) /\ job.tempKeys[j] \notin DOMAIN objects
            /\ j > job.i => Untouched(job.tempKeys[j])

\* a step of the loop keeps the input order, deletes a temp key only when its
\* outputs are written, and changes nothing when it fails
InOrder ==
    (job.pc \in {"fetch", "thumbnail", "image", "delete"}
        /\ job.fn = "processProductImages") =>
        /\ job'.pc # "idle" /\ job'.i \in {job.i, job.i + 1}
        /\ job'.i = job.i + 1 => job.pc = "delete"
        /\ \A k \in DOMAIN objects \ DOMAIN objects' :
              job.pc = "delete" /\ k = job.tempKeys[job.i] /\ Written(job.i)
        /\ job'.pc = "failed" => objects' = objects /\ job'.i = job.i

\* C17: processProductImages handles the temp keys in input order and deletes
\* a temp key only after its outputs are written; when a step for ki fails the
\* call stops, the outputs of every earlier kj stay stored and those kj stay
\* deleted, every later kj is still in the store, and nothing is rolled back.
C17_InOrderNoRollback == [][InOrder /\ Settled']_vars

\* the call failed at the second key, with the first processed and deleted
C17_Witness ==
    /\ job.pc = "failed" /\ job.fn = "processProductImages"
    /\ Len(job.tempKeys) = 2 /\ job.i = 2
    /\ job.tempKeys[2] \in DOMAIN objects
    /\ job.tempKeys[1] \notin DOMAIN objects
    /\ ImageName(job.productId, 1) \in DOMAIN objects

\* the elements of a list
Range(list) == {list[i] : i \in DOMAIN list}

\* C18: processProductImagesAppend(productId, [k1..kn], startIndex) leaves
\* thumbnail.jpg, every image-j.jpg with j <= startIndex and every object
\* other than image-(startIndex+i).jpg and k1..kn as they were; when it has
\* completed, image-(startIndex+i).jpg holds the picture derived from ki and
\* ki is deleted, for every i in 1..n.
C18_AppendFrame ==
    (job.pc # "idle" /\ job.fn = "processProductImagesAppend") =>
        LET n == Len(job.tempKeys)
            outputs == {ImageName(job.productId, job.startIndex + i) : i \in 1..n}
        IN  /\ Untouched(ThumbnailName(job.productId))
            /\ \A j \in 1..job.startIndex : Untouched(ImageName(job.productId, j))
            /\ \A k \in (DOMAIN objects \cup DOMAIN job.before)
                           \ (outputs \cup Range(job.tempKeys)) : Untouched(k)
            /\ job.pc = "done" =>
                  /\ \A i \in 1..n :
                        /\ Holds(ImageName(job.productId, job.startIndex + i),
                                 ImageOf(job.before[job.tempKeys[i]]))
                        /\ job.tempKeys[i] \notin DOMAIN objects
                  /\ job.imageUrls =
                        [i \in 1..n |-> PublicUrl \o "/"
                                          \o ImageName(job.productId, job.startIndex + i)]

\* an append after the first image of a product that has a thumbnail and a
\* first image has completed
C18_Witness ==
    /\ job.pc = "done" /\ job.fn = "processProductImagesAppend"
    /\ job.startIndex = 1 /\ job.tempKeys # <<>>
    /\ ThumbnailName(job.productId) \in DOMAIN job.before
    /\ ImageName(job.productId, 1) \in DOMAIN job.before
    /\ ImageName(job.productId, 2) \in DOMAIN objects

\* the 1 to 20 slots the count asks for
ExpectedSlots(count) ==
    IF ~count.defined \/ count.nan THEN 1
    ELSE IF count.v < 1 THEN 1
    ELSE IF count.v > 20 THEN 20
    ELSE count.v

\* the string starts with the prefix
StartsWith(string, prefix) ==
    Len(string) >= Len(prefix) /\ SubSeq(string, 1, Len(prefix)) = prefix

MaxNow == 3

PROMOTION_TYPES == {"none", "highlighted", "featured", "homepageTop"}

\* promotionExpiresAt: null or undefined, an invalid date, or a time
NoDate == [defined |-> FALSE, nan |-> FALSE, v |-> 0]
InvalidDate == [defined |-> TRUE, nan |-> TRUE, v |-> 0]
DateAt(v) == [defined |-> TRUE, nan |-> FALSE, v |-> v]

\* a promotion that is still active at the moment it expires
isPromotionActiveInclusive(listing) ==
    /\ listing.promotionType \notin {"", "none"}
    /\ listing.promotionExpiresAt.defined /\ ~listing.promotionExpiresAt.nan
    /\ listing.promotionExpiresAt.v >= now

\* isPromotionActive(listing); the promotionType "" is null or undefined
isPromotionActive(listing) ==
    IF listing.promotionType = "" \/ listing.promotionType = "none" THEN FALSE
    ELSE IF ~listing.promotionExpiresAt.defined \/ listing.promotionExpiresAt.nan THEN FALSE
    ELSE listing.promotionExpiresAt.v > now

\* getEffectivePromotionType(listing)
getEffectivePromotionType(listing) ==
    IF listing.promotionType \in {"homepageTop", "featured", "highlighted"}
    THEN (IF isPromotionActive(listing) THEN listing.promotionType ELSE "none")
    ELSE "none"

\* a call of getEffectivePromotionType at the time now
EffectivePromotionType(listing) ==
    /\ res' = [op |-> "getEffectivePromotionType", status |-> 0, listing |-> listing,
               at |-> now, type |-> getEffectivePromotionType(listing)]
    /\ UNCHANGED <<users, categories, filters, regions, cities, listings, nextId, issued, now,
                   pending, started, imageVars>>

\* time passes
ClockTick ==
    /\ now < MaxNow
    /\ now' = now + 1
    /\ UNCHANGED <<users, categories, filters, regions, cities, listings, nextId, issued, res,
                   pending, started, imageVars>>

\* the listings: every promotion type, none and an unknown one, with every
\* kind of expiry
PromotionListings ==
    {[promotionType |-> type, promotionExpiresAt |-> expiresAt] :
        type \in PROMOTION_TYPES \cup {"", "gold"},
        expiresAt \in {NoDate, InvalidDate} \cup {DateAt(v) : v \in 0..MaxNow + 1}}

PromotionNext ==
    \/ \E listing \in PromotionListings : EffectivePromotionType(listing)
    \/ ClockTick

PromotionSpec == Init /\ [][PromotionNext]_vars

(***************************************************************************)
(* Claim C20, under PromotionSpec.                                         *)
(***************************************************************************)
\* the expiry is a time strictly later than the time t
LaterThan(expiresAt, t) == expiresAt.defined /\ ~expiresAt.nan /\ expiresAt.v > t

\* the result for the listing at the time t is what the claim says
EffectiveAsClaimed(listing, t, type) ==
    /\ ~LaterThan(listing.promotionExpiresAt, t) => type = "none"
    /\ type # "none" =>
          /\ type = listing.promotionType
          /\ type \in {"highlighted", "featured", "homepageTop"}
          /\ LaterThan(listing.promotionExpiresAt, t)
    /\ (listing.promotionType \in {"highlighted", "featured", "homepageTop"}
           /\ LaterThan(listing.promotionExpiresAt, t)) => type = listing.promotionType

\* C20: getEffectivePromotionType returns none for every promotionType when
\* promotionExpiresAt is missing, invalid or not later than the current time,
\* and returns the promotionType only when it is highlighted, featured or
\* homepageTop and promotionExpiresAt is strictly later than the current time.
C20_EffectivePromotion ==
    /\ res.op = "getEffectivePromotionType" =>
          EffectiveAsClaimed(res.listing, res.at, res.type)
    /\ \A listing \in PromotionListings :
          EffectiveAsClaimed(listing, now, getEffectivePromotionType(listing))

\* a featured listing that expires at this very moment was given none
C20_Witness ==
    /\ res.op = "getEffectivePromotionType"
    /\ res.listing.promotionType = "featured"
    /\ res.listing.promotionExpiresAt = DateAt(res.at)
    /\ res.at > 0
    /\ res.type = "none"

(***************************************************************************)
(* The ordering of listings by promotion, src/src/utils/promotion.js.      *)
(***************************************************************************)
\* a rank read from the stored promotionType, whatever its expiry
getPromotionRankStored(listing) ==
    IF listing.promotionType = "homepageTop" THEN 0
    ELSE IF listing.promotionType = "featured" THEN 1
    ELSE IF listing.promotionType = "highlighted" THEN 2
    ELSE 3

\* getPromotionRank(listing)
getPromotionRank(listing) ==
    LET type == getEffectivePromotionType(listing)
    IN  IF type = "homepageTop" THEN 0
        ELSE IF type = "featured" THEN 1
        ELSE IF type = "highlighted" THEN 2
        ELSE 3

\* a?.createdAt ? new Date(a.createdAt).getTime() : 0
CreatedTime(listing) ==
    IF ~listing.createdAt.defined THEN Num(0)
    ELSE IF listing.createdAt.nan THEN NaN
    ELSE Num(listing.createdAt.v)

\* compareByPromotionThenCreatedAtDesc(a, b)
compareByPromotionThenCreatedAtDesc(a, b) ==
    LET ra == getPromotionRank(a)
        rb == getPromotionRank(b)
        ta == CreatedTime(a)
        tb == CreatedTime(b)
    IN  IF ra # rb THEN Num(ra - rb)
        ELSE IF ta.nan \/ tb.nan THEN NaN
        ELSE Num(tb.v - ta.v)

\* a call of compareByPromotionThenCreatedAtDesc at the time now
CompareByPromotion(a, b) ==
    /\ res' = [op |-> "compareByPromotionThenCreatedAtDesc", status |-> 0, a |-> a, b |-> b,
               at |-> now, rankA |-> getPromotionRank(a), rankB |-> getPromotionRank(b),
               result |-> compareByPromotionThenCreatedAtDesc(a, b)]
    /\ UNCHANGED <<users, categories, filters, regions, cities, listings, nextId, issued, now,
                   pending, started, imageVars>>

\* the listings compared: every promotion type, expiring early or at the end
\* of the run, created at different times, without a creation time or with
\* an invalid one
RankedListings ==
    {[promotionType |-> type, promotionExpiresAt |-> expiresAt, createdAt |-> createdAt] :
        type \in PROMOTION_TYPES,
        expiresAt \in {DateAt(1), DateAt(MaxNow)},
        createdAt \in {NoDate, InvalidDate, DateAt(0), DateAt(1)}}

RankNext ==
    \/ \E a, b \in RankedListings : CompareByPromotion(a, b)
    \/ ClockTick

RankSpec == Init /\ [][RankNext]_vars

(***************************************************************************)
(* Claim C21, under RankSpec.                                              *)
(***************************************************************************)
\* the listing's promotion of the given type is active at the time t
ActiveAs(listing, type, t) ==
    listing.promotionType = type /\ LaterThan(listing.promotionExpiresAt, t)

\* the rank the claim gives the listing at the time t
RankAsClaimed(listing, t) ==
    IF ActiveAs(listing, "homepageTop", t) THEN 0
    ELSE IF ActiveAs(listing, "featured", t) THEN 1
    ELSE IF ActiveAs(listing, "highlighted", t) THEN 2
    ELSE 3

\* both listings have a creation time
BothCreated(a, b) == a.createdAt.defined /\ b.createdAt.defined

\* the creation time of a is later than that of b
CreatedLater(a, b) ==
    /\ ~a.createdAt.nan /\ ~b.createdAt.nan
    /\ a.createdAt.v > b.createdAt.v

\* C21: getPromotionRank returns 0 for an active homepageTop listing, 1 for
\* an active featured one, 2 for an active highlighted one and 3 for every
\* other listing, every expired one included; and the comparison of two
\* listings that have a creation time is negative exactly when the rank of a
\* is lower than the rank of b, or the ranks are equal and a was created
\* later than b.
C21_RankAndOrder ==
    res.op = "compareByPromotionThenCreatedAtDesc" =>
        /\ res.rankA = RankAsClaimed(res.a, res.at)
        /\ res.rankB = RankAsClaimed(res.b, res.at)
        /\ BothCreated(res.a, res.b) =>
              ((~res.result.nan /\ res.result.v < 0)
                  <=> \/ res.rankA < res.rankB
                      \/ res.rankA = res.rankB /\ CreatedLater(res.a, res.b))

\* an expired homepageTop listing, created later, came after an active
\* highlighted one; and two listings of one rank were ordered by creation
C21_Witness ==
    /\ res.op = "compareByPromotionThenCreatedAtDesc"
    /\ res.a.promotionType = "homepageTop" /\ res.a.promotionExpiresAt = DateAt(res.at)
    /\ res.b.promotionType = "highlighted" /\ LaterThan(res.b.promotionExpiresAt, res.at)
    /\ CreatedLater(res.a, res.b)
    /\ res.rankA = 3 /\ res.rankB = 2
    /\ res.result = Num(1)

(***************************************************************************)
(* The normalisation of a promotion payload, src/src/utils/promotion.js.   *)
(***************************************************************************)
\* body.promotionType: a string, or a value of another type (undefined, null,
\* a number, ...)
StringValue(s) == [isString |-> TRUE, s |-> s]
NotAString == [isString |-> FALSE, s |-> ""]

\* body.promotionExpiresAt: a Date, a string or a number (each standing for
\* the time v, or for no time at all), or a value of another kind
RawDate(kind, nan, v) == [kind |-> kind, nan |-> nan, v |-> v]
RawOther(kind) == [kind |-> kind, nan |-> FALSE, v |-> 0]

\* new Date(rawExpiresAt) for a string or a number
NewDate(raw) == IF raw.nan THEN InvalidDate ELSE DateAt(raw.v)

\* the expiresAt of normalizePromotionInput
ParseExpiresAt(raw) ==
    IF raw.kind = "Date" THEN (IF raw.nan THEN InvalidDate ELSE DateAt(raw.v))
    ELSE IF raw.kind = "string" \/ raw.kind = "number" THEN NewDate(raw)
    ELSE NoDate

\* { promotionType: 'none', promotionExpiresAt: null }
NoPromotion == [promotionType |-> "none", promotionExpiresAt |-> NoDate]

\* a normalisation that lets through an expiry equal to the current time
normalizePromotionInputAtOrAfter(body) ==
    LET rawType == IF body.promotionType.isString THEN body.promotionType.s ELSE "none"
        type == IF rawType \in {"homepageTop", "featured", "highlighted", "none"}
                THEN rawType ELSE "none"
        expiresAt == ParseExpiresAt(body.promotionExpiresAt)
    IN  IF type = "none" THEN NoPromotion
        ELSE IF ~expiresAt.defined \/ expiresAt.nan \/ expiresAt.v < now THEN NoPromotion
        ELSE [promotionType |-> type, promotionExpiresAt |-> expiresAt]

\* normalizePromotionInput(body)
normalizePromotionInput(body) ==
    LET rawType == IF body.promotionType.isString THEN body.promotionType.s ELSE "none"
        type == IF rawType \in {"homepageTop", "featured", "highlighted", "none"}
                THEN rawType ELSE "none"
        expiresAt == ParseExpiresAt(body.promotionExpiresAt)
    IN  IF type = "none" THEN NoPromotion
        ELSE IF ~expiresAt.defined \/ expiresAt.nan \/ expiresAt.v <= now THEN NoPromotion
        ELSE [promotionType |-> type, promotionExpiresAt |-> expiresAt]

\* the returned object, passed as a body again
AsBody(output) ==
    [promotionType |-> StringValue(output.promotionType),
     promotionExpiresAt |->
        IF output.promotionExpiresAt.defined
        THEN RawDate("Date", output.promotionExpiresAt.nan, output.promotionExpiresAt.v)
        ELSE RawOther("null")]

\* a call of normalizePromotionInput at the time now
NormalizePromotionInput(body) ==
    /\ res' = [op |-> "normalizePromotionInput", status |-> 0, body |-> body, at |-> now,
               output |-> normalizePromotionInput(body)]
    /\ UNCHANGED <<users, categories, filters, regions, cities, listings, nextId, issued, now,
                   pending, started, imageVars>>

\* the bodies: every promotion type, an unknown one, the empty string and a
\* value that is no string, with every kind of expiry
PromotionBodies ==
    {[promotionType |-> type, promotionExpiresAt |-> expiresAt] :
        type \in {StringValue(s) : s \in PROMOTION_TYPES \cup {"", "gold"}} \cup {NotAString},
        expiresAt \in {RawOther("undefined"), RawOther("null"), RawOther("boolean")}
                      \cup {RawDate(kind, TRUE, 0) : kind \in {"Date", "string", "number"}}
                      \cup {RawDate(kind, FALSE, v) :
                               kind \in {"Date", "string", "number"}, v \in 0..MaxNow + 1}}

NormalizeNext ==
    \/ \E body \in PromotionBodies : NormalizePromotionInput(body)
    \/ ClockTick

NormalizeSpec == Init /\ [][NormalizeNext]_vars

(***************************************************************************)
(* Claim C22, under NormalizeSpec.                                         *)
(***************************************************************************)
\* the body names one of the three promotions
Recognized(body) ==
    body.promotionType.isString
        /\ body.promotionType.s \in {"highlighted", "featured", "homepageTop"}

\* the body's expiry is a time strictly later than the time t
FutureExpiry(body, t) ==
    /\ body.promotionExpiresAt.kind \in {"Date", "string", "number"}
    /\ ~body.promotionExpiresAt.nan
    /\ body.promotionExpiresAt.v > t

\* the output for the body at the time t is what the claim says
NormalizedAsClaimed(body, t, output) ==
    /\ \/ output = NoPromotion
       \/ /\ output.promotionType \in {"highlighted", "featured", "homepageTop"}
          /\ LaterThan(output.promotionExpiresAt, t)
    /\ (~Recognized(body) \/ ~FutureExpiry(body, t)) => output = NoPromotion
    /\ (Recognized(body) /\ FutureExpiry(body, t)) =>
          /\ output.promotionType = body.promotionType.s
          /\ output.promotionExpiresAt = DateAt(body.promotionExpiresAt.v)

\* C22: at a fixed current time, normalizePromotionInput returns either
\* (none, null) or a pair (t, e) with t highlighted, featured or homepageTop
\* and e strictly later than now; an unrecognized type, or a recognized type
\* with a missing, invalid or not-future expiry, yields (none, null);
\* normalising the output again returns the same output, and
\* getEffectivePromotionType of the output equals the output's promotionType.
C22_NormalizePromotion ==
    /\ res.op = "normalizePromotionInput" =>
          NormalizedAsClaimed(res.body, res.at, res.output)
    /\ \A body \in PromotionBodies :
          LET output == normalizePromotionInput(body)
          IN  /\ NormalizedAsClaimed(body, now, output)
              /\ normalizePromotionInput(AsBody(output)) = output
              /\ getEffectivePromotionType(output) = output.promotionType

\* a featured promotion sent as a string date that expires at this very
\* moment was normalised to none, after the clock had moved
C22_Witness ==
    /\ res.op = "normalizePromotionInput"
    /\ res.body.promotionType = StringValue("featured")
    /\ res.body.promotionExpiresAt = RawDate("string", FALSE, res.at)
    /\ res.at > 0
    /\ res.output = NoPromotion

(***************************************************************************)
(* Claim C23, under AuthSpec.                                              *)
(***************************************************************************)
\* the request is not authenticated as a user whose role is admin
NotAdmin(authHeader) ==
    LET auth == requireAuth(authHeader)
    IN  ~auth.ok \/ users[auth.user].role # "admin"

\* C23: a region, city, category or filter is created, updated or deleted
\* only by a request authenticated as a user whose role is admin; a request
\* of any other user, a customer included, changes none of them.
C23_OnlyAdminChangesCatalog ==
    \A h \in Headers :
        NotAdmin(h) =>
            /\ \A body \in AuthSpecCategoryPosts :
                  CategoriesPost(h, body, <<"0">>).categories = categories
            /\ \A id \in 1..MaxCategories, body \in AuthSpecCategoryPuts :
                  CategoriesPut(h, id, body).categories = categories
            /\ \A id \in 1..MaxCategories : CategoriesDelete(h, id).categories = categories
            /\ \A body \in AuthSpecFilterPosts :
                  FiltersPost(h, body, <<"0">>).filters = filters
            /\ \A id \in 1..MaxFilters, body \in AuthSpecFilterPuts :
                  FiltersPut(h, id, body, <<"0">>).filters = filters
            /\ \A id \in 1..MaxFilters : FiltersDelete(h, id).filters = filters
            /\ \A body \in AuthSpecRegionPosts :
                  RegionsPost(h, body, <<"0">>).regions = regions
            /\ \A id \in 1..MaxRegions, body \in AuthSpecRegionPuts :
                  RegionsPut(h, id, body).regions = regions
            /\ \A id \in 1..MaxRegions : RegionsDelete(h, id).regions = regions
            /\ \A body \in AuthSpecCityPosts :
                  CitiesPost(h, body, <<"0">>).cities = cities
            /\ \A id \in 1..MaxCities, body \in AuthSpecCityPuts :
                  CitiesPut(h, id, body).cities = cities
            /\ \A id \in 1..MaxCities : CitiesDelete(h, id).cities = cities

(***************************************************************************)
(* The filter type specification: filters of every type that are created,  *)
(* retyped, given options and deleted.                                     *)
(***************************************************************************)
\* a filter body with a type and a list of options
TypedFilterBody(fields, name, type, options) ==
    [FilterBody(fields, name, 1, FALSE, 0, TRUE) EXCEPT !.type = type, !.options = options]

\* the option lists sent: none, one option, one empty option
OptionLists == {<<>>, << <<"x">> >>, << <<>> >>}

OptionSpecFilterPosts ==
    {TypedFilterBody({"name", "type", "categoryId"} \cup extra, name, type, options) :
        extra \in {{}, {"options"}}, name \in {<<"a">>, <<"b">>},
        type \in {"select", "text", "range"}, options \in OptionLists}

OptionSpecFilterPuts ==
    {TypedFilterBody(fields, <<>>, type, options) :
        fields \in {{"type"}, {"options"}, {"type", "options"}},
        type \in {"select", "text"}, options \in OptionLists}

OptionNext ==
    \/ \E body \in SpecRegisterBodies : Register(body)
    \/ \E h \in AuthedHeaders, body \in OptionSpecFilterPosts : PostFilter(h, body, <<"0">>)
    \/ \E h \in AuthedHeaders, id \in 1..MaxFilters, body \in OptionSpecFilterPuts :
          PutFilter(h, id, body, <<"0">>)
    \/ \E h \in AuthedHeaders, id \in 1..MaxFilters : DeleteFilter(h, id)

OptionSpec == Init /\ [][OptionNext]_vars

(***************************************************************************)
(* Claim C24, under OptionSpec.                                            *)
(***************************************************************************)
\* the filter has options, each a non-empty string
HasOptions(filter) ==
    /\ filter.options.defined
    /\ filter.options.v # <<>>
    /\ \A i \in 1..Len(filter.options.v) : filter.options.v[i] # <<>>

\* the filter has no options
HasNoOptions(filter) == ~filter.options.defined \/ filter.options.v = <<>>

\* C24: after any sequence of filter creates and updates, updates that
\* change the type without sending options included, every stored filter of
\* type select has a non-empty list of non-empty options and every stored
\* filter of another type has no options.
C24_OptionsIffSelect ==
    \A f \in DOMAIN filters :
        IF filters[f].type = "select" THEN HasOptions(filters[f])
        ELSE HasNoOptions(filters[f])

(***************************************************************************)
(* Claim C25, under Spec.                                                  *)
(***************************************************************************)
\* the parentId of a stored category; 0 is null
ParentOf(c) == IF c \in DOMAIN categories THEN categories[c].parentId ELSE 0

\* the category n parentId links above c; 0 past a root or a missing parent
RECURSIVE NthAncestor(_, _)
NthAncestor(c, n) == IF n = 0 THEN c ELSE ParentOf(NthAncestor(c, n - 1))

\* C25: after any sequence of category creates, updates and deletes the
\* parent relation is acyclic: following parentId links from a stored
\* category never leads back to it.
C25_ParentAcyclic ==
    \A c \in DOMAIN categories, n \in 1..MaxCategories : NthAncestor(c, n) # c

(***************************************************************************)
(* The concurrent category specification: creates, updates and deletes of  *)
(* categories handled at once.  A create or update is split after its      *)
(* parent lookup, a delete after its children count.                       *)
(***************************************************************************)
\* DELETE /categories/:id up to its deleteOne
CategoriesDeletePrepare(authHeader, id) ==
    LET auth == requireAuth(authHeader)
        childrenCount == Cardinality({c \in DOMAIN categories : categories[c].parentId = id})
    IN
    IF ~auth.ok THEN Stop(auth.status, auth.error)
    ELSE IF CategoryFindById(id).id = 0 THEN Stop(404, "Category not found")
    ELSE IF childrenCount > 0
    THEN Stop(400, "Cannot delete category that has subcategories. Delete or move children first.")
    ELSE Proceed([id |-> id])

BeginDeleteCategory(t, authHeader, id) ==
    Begin(t, "CategoriesDelete", CategoriesDeletePrepare(authHeader, id), "", [id |-> 0])

\* Category.deleteOne({ _id: id }) and the 204 reply
WriteDeleteCategory(t) ==
    /\ pending[t].kind = "CategoriesDelete"
    /\ categories' = [c \in DOMAIN categories \ {pending[t].doc.id} |-> categories[c]]
    /\ End(t, 204)
    /\ UNCHANGED <<users, filters, regions, cities, listings, issued>>

TreeCategoryPosts ==
    {[fields |-> {"name", "parentId"}, name |-> n, slug |-> <<>>, parentId |-> p] :
        n \in {<<"a">>, <<"b">>}, p \in {0, 1}}

TreeCategoryPuts ==
    {[fields |-> {"parentId"}, name |-> <<>>, slug |-> <<>>, parentId |-> p] : p \in {0, 1}}

TreeNext ==
    \E t \in Threads :
        \/ \E h \in AuthedHeaders, body \in TreeCategoryPosts :
              BeginPostCategory(t, h, body, <<"0">>)
        \/ \E h \in AuthedHeaders, id \in ConcIds, body \in TreeCategoryPuts :
              BeginPutCategory(t, h, id, body)
        \/ WriteCategory(t)
        \/ \E h \in AuthedHeaders, id \in ConcIds : BeginDeleteCategory(t, h, id)
        \/ WriteDeleteCategory(t)

TreeSpec == ConcInit /\ [][TreeNext]_vars

(***************************************************************************)
(* Claim C26, under TreeSpec.                                              *)
(***************************************************************************)
\* C26: under every interleaving of concurrent category creates, updates
\* and deletes, every stored category with a non-null parentId refers to a
\* category that is still stored.
C26_ParentStillStored ==
    \A c \in DOMAIN categories :
        categories[c].parentId # 0 => categories[c].parentId \in DOMAIN categories

(***************************************************************************)
(* Claim C27, under Spec.                                                  *)
(***************************************************************************)
\* C27: from an empty store, after any sequence of category creates,
\* updates and deletes, moves of categories that have descendants included,
\* every stored category has a level equal to the length of its path, an
\* empty path exactly when its parentId is null, and otherwise a path whose
\* last element is its parentId.
C27_LevelAndPathOwnParent ==
    \A c \in DOMAIN categories :
        LET cat == categories[c] IN
        /\ cat.level = Len(cat.path)
        /\ cat.path = <<>> <=> cat.parentId = 0
        /\ cat.parentId # 0 => cat.path[Len(cat.path)] = cat.parentId

\* a category that has a child was moved under a third category, and the
\* child's path no longer continues the path of its parent
C27_Witness ==
    /\ res.op = "CategoriesPut"
    /\ res.status = 200
    /\ \E c, p \in DOMAIN categories :
          /\ categories[c].parentId = p
          /\ categories[p].parentId # 0
          /\ \A n \in 1..MaxCategories : NthAncestor(c, n) # c
          /\ categories[c].path # Append(categories[p].path, p)

(***************************************************************************)
(* The owner specification: two registered users who create, update and    *)
(* delete listings, their own and each other's.                            *)
(***************************************************************************)
\* the state after two registrations at time 0
OwnerInit ==
    /\ users = [u \in {1, 2} |->
                  [id |-> u, email |-> IF u = 1 THEN <<"a">> ELSE <<"b">>,
                   password |-> bcryptHash(Secret),
                   firstName |-> <<"A">>, lastName |-> <<"B">>, businessName |-> <<>>,
                   role |-> "customer", phone |-> <<>>, userType |-> "physical"]]
    /\ categories = Empty
    /\ filters = Empty
    /\ regions = Empty
    /\ cities = Empty
    /\ listings = Empty
    /\ nextId = [user |-> 3, category |-> 1, filter |-> 1, region |-> 1, city |-> 1,
                 listing |-> 1]
    /\ issued = {jwtSign(1, 0), jwtSign(2, 0)}
    /\ now = 0
    /\ res = [op |-> "AuthRegister", status |-> 201]
    /\ pending = [t \in Threads |-> Idle]
    /\ started = 0
    /\ objects = Empty
    /\ job = [pc |-> "idle"]
    /\ presigned = [calls |-> 0, slots |-> <<>>]

\* a body that also names the first user as the owner
WithOwner(body) == [body EXCEPT !.fields = @ \cup {"ownerId"}] @@ [ownerId |-> 1]

OwnerProductPosts ==
    {WithOwner(ListingBody(ListingRequired \cup {"type", "rentPeriod", "price"},
                           title, type, "day", Num(1), "", 0, <<>>)) :
        title \in {<<"a">>, <<"b">>}, type \in {"sell", "rent"}}

OwnerProductPuts ==
    {WithOwner(ListingBody({"title"}, title, "", "", NaN, "", 0, <<>>)) :
        title \in {<<"a">>, <<"c">>}}
    \cup {WithOwner(ListingBody({"price"}, <<>>, "", "", Num(v), "", 0, <<>>)) : v \in {1, 2}}
    \cup {WithOwner(body) : body \in ProductSpecProductPuts}

OwnerNext ==
    \/ \E h \in AuthedHeaders, body \in OwnerProductPosts : PostProduct(h, body, <<"0">>)
    \/ \E h \in AuthedHeaders, id \in 1..MaxListings, body \in OwnerProductPuts :
          PutProduct(h, id, body)
    \/ \E h \in AuthedHeaders, id \in 1..MaxListings : DeleteProduct(h, id)

OwnerSpec == OwnerInit /\ [][OwnerNext]_vars

(***************************************************************************)
(* Claim C28, under OwnerSpec.                                             *)
(***************************************************************************)
\* the request is authenticated as the owner of the stored listing id
IsOwner(authHeader, id) ==
    /\ requireAuth(authHeader).ok
    /\ id \in DOMAIN listings
    /\ listings[id].ownerId = requireAuth(authHeader).user

\* C28: PUT /products/:id and DELETE /products/:id change or remove a
\* listing only when the authenticated user is the listing's owner; a
\* request of any other user leaves the listing unchanged.
C28_OnlyOwnerChangesListing ==
    \A h \in AuthedHeaders, id \in 1..MaxListings :
        ~IsOwner(h, id) =>
            /\ \A body \in OwnerProductPuts : ProductsPut(h, id, body).listings = listings
            /\ ProductsDelete(h, id).listings = listings

(***************************************************************************)
(* Claim C29, under OwnerSpec.                                             *)
(***************************************************************************)
\* C29: a listing's ownerId is set at creation to the id of the
\* authenticated user and never from the request body, and no PUT changes
\* the ownerId of a stored listing.
C29_OwnerFromAuthAndKept ==
    /\ \A h \in AuthedHeaders, body \in OwnerProductPosts :
          LET r == ProductsPost(h, body, <<"0">>) IN
          r.status = 201 =>
              /\ nextId.listing \in DOMAIN r.listings
              /\ r.listings[nextId.listing].ownerId = requireAuth(h).user
    /\ \A h \in AuthedHeaders, id \in 1..MaxListings, body \in OwnerProductPuts :
          LET r == ProductsPut(h, id, body) IN
          \A l \in DOMAIN listings :
              l \in DOMAIN r.listings /\ r.listings[l].ownerId = listings[l].ownerId

\* the listing of the second user, created with a body that names the first
\* user as owner, is still the second user's after an update that names the
\* first user too
C29_Witness ==
    /\ res.op = "ProductsPut"
    /\ res.status = 200
    /\ \E l \in DOMAIN listings : listings[l].ownerId = 2 /\ listings[l].title = <<"c">>

(***************************************************************************)
(* The profile specification: users who register, log in and update their  *)
(* profile, with bodies that name a role, an email and a password.         *)
(***************************************************************************)
\* the number of users of the profile specification
MaxProfiles == 2

\* POST /auth/register, for at most MaxProfiles users
RegisterProfile(body) ==
    LET r == AuthRegister(body) IN
    /\ r.status = 201 => nextId.user <= MaxProfiles
    /\ users' = r.users
    /\ nextId' = Bump("user", r.status)
    /\ issued' = IF r.status = 201 THEN issued \cup {r.token} ELSE issued
    /\ res' = [op |-> "AuthRegister", status |-> r.status]
    /\ UNCHANGED <<categories, filters, regions, cities, listings, now, pending, started,
                   imageVars>>

\* every registration asks for the role admin
ProfileRegisterBodies ==
    {[RegisterBody(e, Secret) EXCEPT !.fields = @ \cup {"role"}] @@ [role |-> "admin"] :
        e \in {<<"a">>, <<"b">>}}

ProfileLoginBodies ==
    {[fields |-> {"email", "password"}, email |-> e, password |-> pw] :
        e \in {<<"a">>, <<"b">>}, pw \in {Secret, <<"x">>}}

\* the profile updates: one names a role, an email and a password besides
\* the first name, the others name profile fields only
ProfilePatchBodies ==
    {[fields |-> {"firstName", "role", "email", "password"}, firstName |-> <<"c">>,
      role |-> "admin", email |-> <<"x">>, password |-> <<"p">>],
     [fields |-> {"lastName", "phone"}, lastName |-> <<"d">>, phone |-> <<"5">>],
     [fields |-> {"businessName", "userType"}, businessName |-> <<"e">>,
      userType |-> "business"],
     [fields |-> {"userType"}, userType |-> "admin"]}

ProfileNext ==
    \/ \E body \in ProfileRegisterBodies : RegisterProfile(body)
    \/ \E body \in ProfileLoginBodies : Login(body)
    \/ \E h \in Headers, body \in ProfilePatchBodies : PatchMe(h, body)

ProfileSpec == Init /\ [][ProfileNext]_vars

(***************************************************************************)
(* Claim C30, under ProfileSpec.                                           *)
(***************************************************************************)
\* no stored user has the role admin
NoAdmin == \A u \in DOMAIN users : users[u].role # "admin"

\* the step keeps every stored user, with its email, password hash and role
CredentialsKept ==
    \A u \in DOMAIN users :
        /\ u \in DOMAIN users'
        /\ users'[u].email = users[u].email
        /\ users'[u].password = users[u].password
        /\ users'[u].role = users[u].role

\* the user is the same but for the five profile fields
SameButProfile(after, before) ==
    [after EXCEPT !.firstName = before.firstName, !.lastName = before.lastName,
                  !.phone = before.phone, !.businessName = before.businessName,
                  !.userType = before.userType] = before

\* every PATCH /auth/me changes at most the profile fields of the
\* authenticated user
PatchFrame ==
    \A h \in Headers, body \in ProfilePatchBodies :
        LET r == AuthPatchMe(h, body)
            auth == requireAuth(h)
        IN  /\ DOMAIN r.users = DOMAIN users
            /\ \A u \in DOMAIN users :
                  IF auth.ok /\ u = auth.user THEN SameButProfile(r.users[u], users[u])
                  ELSE r.users[u] = users[u]

\* C30: no sequence of register, login and PATCH /auth/me requests stores a
\* user whose role is admin or changes the email, password hash or role of a
\* stored user; PATCH /auth/me changes only firstName, lastName, phone,
\* businessName and userType of the authenticated user and leaves every
\* other user unchanged.
C30_RoleAndCredentialsFrame == [][NoAdmin' /\ CredentialsKept /\ PatchFrame']_vars

\* two users registered asking for the role admin; one of them sent the
\* update that names a role, an email and a password, and only got the new
\* first name
C30_Witness ==
    /\ res.op = "AuthPatchMe"
    /\ res.status = 200
    /\ Cardinality(DOMAIN users) = 2
    /\ \E u \in DOMAIN users :
          /\ users[u].firstName = <<"c">>
          /\ users[u].role = "customer"
          /\ users[u].email \in {<<"a">>, <<"b">>}

====
